---- MODULE Spec2Model ----
(***************************************************************************)
(* Altimeter: the sidebar's refresh cycle                                  *)
(* (AltimeterViewProvider._fetchCurrentSessionStats), the paginated fetch  *)
(* (ConversationService.fetchSessionData), the one-entry cache             *)
(* (CacheManager) and the aggregation (StatsService), run against a local  *)
(* language-server backend that this module models as the environment.     *)
(***************************************************************************)
EXTENDS Integers, Sequences, FiniteSets, TLC

(***************************************************************************)
(* Bounds of the model.                                                    *)
(***************************************************************************)
\* records the backend appends, over all sessions and both streams
MaxAppends == 2
\* values of the backend's clock (lastModifiedTime, Date.now())
MaxClock == 3
\* ports the backend starts on, one after the other
MaxPort == 2
\* records the backend returns in one page
MaxPage == 2

(***************************************************************************)
(* JSON values of the loosely typed records.                               *)
(***************************************************************************)
Missing == [t |-> "undefined"]
Num(n) == [t |-> "number", n |-> n]
\* a string, given with what parseInt(s, 10) reads from its head: {n}, or {}
\* (NaN) when the string starts with no integer
Str(s, parsed) == [t |-> "string", s |-> s, parsed |-> parsed]

\* parseInt(v, 10): {n}, or {} for NaN
ParseInt(v) ==
    CASE v.t = "number" -> {v.n}
      [] v.t = "string" -> v.parsed
      [] OTHER -> {}

\* x || 0, for x the result of parseInt
OrZero(x) == IF x = {} THEN 0 ELSE CHOOSE n \in x : TRUE

\* parseInt(v, 10) || 0
Tok(v) == OrZero(ParseInt(v))

\* JavaScript truthiness of a JSON value
Truthy(v) ==
    CASE v.t = "undefined" -> FALSE
      [] v.t = "number" -> v.n # 0
      [] v.t = "string" -> v.s # ""
      [] OTHER -> TRUE

\* a || b
Or(a, b) == IF Truthy(a) THEN a ELSE b

(***************************************************************************)
(* shared/ModelCatalog.ts                                                  *)
(***************************************************************************)
MODEL_CATALOG ==
    [ MODEL_PLACEHOLDER_M18 |-> [displayName |-> "Gemini 3 Flash", order |-> 1],
      MODEL_PLACEHOLDER_M8 |-> [displayName |-> "Gemini 3 Pro (High)", order |-> 2],
      MODEL_PLACEHOLDER_M7 |-> [displayName |-> "Gemini 3 Pro (Low)", order |-> 3],
      MODEL_PLACEHOLDER_M12 |-> [displayName |-> "Claude Opus 4.5 (Thinking)", order |-> 4],
      MODEL_CLAUDE_4_5_SONNET_THINKING |->
          [displayName |-> "Claude Sonnet 4.5 (Thinking)", order |-> 5],
      MODEL_CLAUDE_4_5_SONNET |-> [displayName |-> "Claude Sonnet 4.5", order |-> 6],
      MODEL_OPENAI_GPT_OSS_120B_MEDIUM |->
          [displayName |-> "GPT-OSS 120B (Medium)", order |-> 7],
      MODEL_GOOGLE_GEMINI_2_5_FLASH |-> [displayName |-> "Gemini 2.5 Flash", order |-> 8],
      MODEL_GOOGLE_GEMINI_2_5_FLASH_LITE |->
          [displayName |-> "Gemini 2.5 Flash Lite", order |-> 9] ]

\* the order of a display name the catalog does not hold
UnknownOrder == 999

getModelDisplayName(modelId) ==
    IF modelId \in DOMAIN MODEL_CATALOG THEN MODEL_CATALOG[modelId].displayName ELSE modelId

getModelOrder(displayName) ==
    IF \E id \in DOMAIN MODEL_CATALOG : MODEL_CATALOG[id].displayName = displayName
    THEN (CHOOSE o \in 1..9 :
              \E id \in DOMAIN MODEL_CATALOG :
                  MODEL_CATALOG[id].displayName = displayName /\ MODEL_CATALOG[id].order = o)
    ELSE UnknownOrder

(***************************************************************************)
(* A JavaScript object used as a map from display name to ModelStats:      *)
(* the sequence of its own entries in insertion order (Object.values).     *)
(* A key that Object.prototype holds reads as present though the object    *)
(* has no such entry of its own.                                           *)
(***************************************************************************)
ObjectPrototypeKeys ==
    {"constructor", "toString", "valueOf", "hasOwnProperty", "isPrototypeOf",
     "propertyIsEnumerable", "toLocaleString", "__proto__"}

HasOwn(map, key) == \E i \in 1..Len(map) : map[i].displayName = key

IndexOf(map, key) == CHOOSE i \in 1..Len(map) : map[i].displayName = key

\* !map[key] is false
Reads(map, key) == HasOwn(map, key) \/ key \in ObjectPrototypeKeys

\* the entry of a new display name
NewModelStats(displayName) ==
    [displayName |-> displayName, calls |-> 0, input |-> 0, output |-> 0, cacheRead |-> 0]

\* map[key] gets calls, input, output and cacheRead added; an inherited key's
\* additions go to the prototype's object and leave the map's own entries alone
AddTo(map, key, calls, input, output, cacheRead) ==
    IF HasOwn(map, key)
    THEN [map EXCEPT ![IndexOf(map, key)] =
              [@ EXCEPT !.calls = @ + calls, !.input = @ + input,
                        !.output = @ + output, !.cacheRead = @ + cacheRead]]
    ELSE map

\* Array.prototype.sort by getModelOrder: stable
RECURSIVE InsertByOrder(_, _)
InsertByOrder(sorted, m) ==
    IF sorted = <<>> THEN <<m>>
    ELSE IF getModelOrder(sorted[Len(sorted)].displayName) <= getModelOrder(m.displayName)
         THEN Append(sorted, m)
         ELSE Append(InsertByOrder(SubSeq(sorted, 1, Len(sorted) - 1), m), sorted[Len(sorted)])

RECURSIVE SortByOrder(_)
SortByOrder(map) ==
    IF map = <<>> THEN <<>>
    ELSE InsertByOrder(SortByOrder(SubSeq(map, 1, Len(map) - 1)), map[Len(map)])

(***************************************************************************)
(* The backend's records.                                                  *)
(***************************************************************************)
\* a generator-metadata record: chatModel.usage.model, chatModel.model, the
\* usage's token fields, chatModel.chatStartMetadata.contextWindowMetadata
\* .estimatedTokensUsed and chatModel.usage.contextTokens
MetaRecord(usageModel, chatModelModel, input, output, cacheRead, estimated, context) ==
    [usageModel |-> usageModel, chatModelModel |-> chatModelModel,
     inputTokens |-> input, outputTokens |-> output, cacheReadTokens |-> cacheRead,
     estimatedTokensUsed |-> estimated, contextTokens |-> context]

\* a usage object of a step
Usage(model, inputTokens, outputTokens, cacheReadTokens) ==
    [t |-> "object", model |-> model, inputTokens |-> inputTokens,
     outputTokens |-> outputTokens, cacheReadTokens |-> cacheReadTokens]

\* a step record: its type tag, step.modelUsage and step.metadata.modelUsage
StepRecord(type, modelUsage, metadataModelUsage) ==
    [type |-> type, modelUsage |-> modelUsage, metadataModelUsage |-> metadataModelUsage]

(***************************************************************************)
(* services/StatsService.ts                                                *)
(***************************************************************************)
createEmptyStats ==
    [totalCalls |-> 0, totalInput |-> 0, totalOutput |-> 0, totalCacheRead |-> 0,
     lastContextSize |-> 0, modelBreakdown |-> <<>>]

\* one call of the forEach over the metadata; acc holds total and modelStats
FoldMetadata(acc, item, isLast) ==
    LET rawModel == Or(Or(item.usageModel, item.chatModelModel), Str("Unknown", {}))
        displayName == getModelDisplayName(rawModel.s)
        created == IF Reads(acc.modelStats, displayName)
                   THEN acc.modelStats
                   ELSE Append(acc.modelStats, NewModelStats(displayName))
        ctx == Or(Or(item.estimatedTokensUsed, item.contextTokens), Num(0))
    IN  [modelStats |->
             AddTo(created, displayName, 1, Tok(item.inputTokens),
                   Tok(item.outputTokens), Tok(item.cacheReadTokens)),
         total |->
             [acc.total EXCEPT
                 !.lastContextSize = IF isLast THEN Tok(ctx) ELSE @,
                 !.totalCalls = @ + 1,
                 !.totalInput = @ + Tok(item.inputTokens),
                 !.totalOutput = @ + Tok(item.outputTokens),
                 !.totalCacheRead = @ + Tok(item.cacheReadTokens)]]

\* the usage of step.modelUsage alone
StepUsageDirect(step) == step.modelUsage

\* the usage object the steps loop reads: step.modelUsage || step.metadata?.modelUsage
StepUsage(step) == Or(step.modelUsage, step.metadataModelUsage)

\* one call of the forEach over the steps
FoldStep(acc, step) ==
    LET usage == StepUsage(step)
    IN  IF ~Truthy(usage) THEN acc
        ELSE LET raw == Or(usage.model, Str("Unknown", {}))
                 displayName == getModelDisplayName(raw.s)
                 created == IF Reads(acc.modelStats, displayName)
                            THEN acc.modelStats
                            ELSE Append(acc.modelStats, NewModelStats(displayName))
             IN  [modelStats |->
                      AddTo(created, displayName, 1, Tok(usage.inputTokens),
                            Tok(usage.outputTokens), Tok(usage.cacheReadTokens)),
                  total |->
                      [acc.total EXCEPT
                          !.totalCalls = @ + 1,
                          !.totalInput = @ + Tok(usage.inputTokens),
                          !.totalOutput = @ + Tok(usage.outputTokens),
                          !.totalCacheRead = @ + Tok(usage.cacheReadTokens)]]

RECURSIVE FoldAllMetadata(_, _, _)
FoldAllMetadata(acc, metadata, i) ==
    IF i > Len(metadata) THEN acc
    ELSE FoldAllMetadata(FoldMetadata(acc, metadata[i], i = Len(metadata)), metadata, i + 1)

RECURSIVE FoldAllSteps(_, _, _)
FoldAllSteps(acc, steps, i) ==
    IF i > Len(steps) THEN acc
    ELSE FoldAllSteps(FoldStep(acc, steps[i]), steps, i + 1)

calculateStats(metadata, steps) ==
    LET start == [modelStats |-> <<>>, total |-> createEmptyStats]
        folded == FoldAllSteps(FoldAllMetadata(start, metadata, 1), steps, 1)
    IN  [folded.total EXCEPT !.modelBreakdown = SortByOrder(folded.modelStats)]

\* the closure mergeModel of mergeStats
mergeModel(modelMap, m) ==
    IF ~Reads(modelMap, m.displayName)
    THEN Append(modelMap, m)
    ELSE AddTo(modelMap, m.displayName, m.calls, m.input, m.output, m.cacheRead)

RECURSIVE MergeModels(_, _, _)
MergeModels(modelMap, breakdown, i) ==
    IF i > Len(breakdown) THEN modelMap
    ELSE MergeModels(mergeModel(modelMap, breakdown[i]), breakdown, i + 1)

\* mergeStats with the context size of the delta, whatever the delta holds
mergeStatsTakesDelta(base, delta) ==
    [totalCalls |-> base.totalCalls + delta.totalCalls,
     totalInput |-> base.totalInput + delta.totalInput,
     totalOutput |-> base.totalOutput + delta.totalOutput,
     totalCacheRead |-> base.totalCacheRead + delta.totalCacheRead,
     lastContextSize |-> delta.lastContextSize,
     modelBreakdown |->
         SortByOrder(MergeModels(MergeModels(<<>>, base.modelBreakdown, 1),
                                 delta.modelBreakdown, 1))]

\* mergeStats with the cache reads of the base alone
mergeStatsKeepsCacheRead(base, delta) ==
    [totalCalls |-> base.totalCalls + delta.totalCalls,
     totalInput |-> base.totalInput + delta.totalInput,
     totalOutput |-> base.totalOutput + delta.totalOutput,
     totalCacheRead |-> base.totalCacheRead,
     lastContextSize |->
         IF delta.totalInput > 0 \/ delta.totalCalls > 0
         THEN delta.lastContextSize
         ELSE base.lastContextSize,
     modelBreakdown |->
         SortByOrder(MergeModels(MergeModels(<<>>, base.modelBreakdown, 1),
                                 delta.modelBreakdown, 1))]

mergeStats(base, delta) ==
    [totalCalls |-> base.totalCalls + delta.totalCalls,
     totalInput |-> base.totalInput + delta.totalInput,
     totalOutput |-> base.totalOutput + delta.totalOutput,
     totalCacheRead |-> base.totalCacheRead + delta.totalCacheRead,
     lastContextSize |->
         IF delta.totalInput > 0 \/ delta.totalCalls > 0
         THEN delta.lastContextSize
         ELSE base.lastContextSize,
     modelBreakdown |->
         SortByOrder(MergeModels(MergeModels(<<>>, base.modelBreakdown, 1),
                                 delta.modelBreakdown, 1))]

(***************************************************************************)
(* The sessions the backend tracks, in the order list-sessions names them, *)
(* and the records it appends to their streams.                            *)
(***************************************************************************)
SessionOrder == <<"A", "B">>
Sessions == {SessionOrder[i] : i \in 1..Len(SessionOrder)}

\* a metadata record of a model outside the catalog, named by chatModel.model,
\* with a numeric string, a number, a missing field and a non-numeric string
MetaChoices ==
    { MetaRecord(Missing, Str("custom-x", {}),
                 Str("4", {4}), Num(3), Str("n/a", {}), Missing, Str("9", {9})) }

\* a checkpoint step that carries the usage of another model outside the catalog
StepChoices ==
    { StepRecord("CORTEX_STEP_TYPE_CHECKPOINT",
                 Usage(Str("custom-y", {}), Str("1", {1}), Num(1), Missing), Missing) }

\* the two sources of a refresh: the poll (the 60 s timer, the first fetch of a
\* resolved view, the webview's refresh message, a configuration change), which
\* passes force = false, and the altimeter.refresh command, which passes true
Triggers == {"timer", "command"}
ForceOf(t) == t = "command"

VARIABLES
    metaStream,   \* backend: session -> its generator-metadata records
    stepStream,   \* backend: session -> its step records
    modified,     \* backend: session -> lastModifiedTime, 0 for a session not yet created
    clock,        \* the machine's clock
    lsPort,       \* the port the backend listens on
    view,         \* this._view is set
    client,       \* the module-level client: the port it holds, 0 for undefined
    cache,        \* CacheManager.cache
    shown,        \* the state last rendered by _updateHtml
    log,          \* the line the logger wrote last
    cycle,        \* trigger -> the locals of its invocation of _fetchCurrentSessionStats
    inflight      \* trigger -> the request its invocation awaits, or the response to it

VARIABLES
    hunter,       \* a call of ProcessHunter.scanEnvironment: its locals, what it ran and found
    call          \* a call of StatsService: the function, its arguments and its result

vars == <<metaStream, stepStream, modified, clock, lsPort, view, client, cache, shown,
          log, cycle, inflight, hunter, call>>
\* what the refresh cycle and the backend's streams leave alone
apart == <<hunter, call>>
backend == <<metaStream, stepStream, modified, clock, lsPort>>

NoEntry == [t |-> "null"]
NoSession == [t |-> "null"]
NoRequest == [st |-> "none"]
\* no scan is running, no function is called
NoScan == [pc |-> "none"]
NoCall == [op |-> "none"]

\* the locals of an invocation that is not running
Idle ==
    [pc |-> "idle", force |-> FALSE, svc |-> 0, latest |-> NoSession,
     cachedEntry |-> NoEntry, startMetaOffset |-> 0, startStepOffset |-> 0,
     metaOffset |-> 0, stepOffset |-> 0, metadata |-> <<>>, steps |-> <<>>,
     apiCalls |-> 0]

Init ==
    /\ metaStream = [s \in Sessions |-> <<>>]
    /\ stepStream = [s \in Sessions |-> <<>>]
    /\ modified = [s \in Sessions |-> 0]
    /\ clock = 0
    /\ lsPort = 1
    /\ view = FALSE
    /\ client = 0
    /\ cache = NoEntry
    /\ shown = [kind |-> "none"]
    /\ log = "Altimeter is now active!"
    /\ cycle = [t \in Triggers |-> Idle]
    /\ inflight = [t \in Triggers |-> NoRequest]
    /\ hunter = NoScan
    /\ call = NoCall

(***************************************************************************)
(* core/CacheManager.ts                                                    *)
(***************************************************************************)
\* CacheManager.set: the entry that replaces this.cache; now is Date.now()
CacheSet(cascadeId, lastModifiedTime, stats, nextMetaOffset, nextStepOffset, now) ==
    [t |-> "entry", cascadeId |-> cascadeId, lastModifiedTime |-> lastModifiedTime,
     stats |-> stats, timestamp |-> now,
     nextMetaOffset |-> nextMetaOffset, nextStepOffset |-> nextStepOffset]

(***************************************************************************)
(* services/ConversationService.ts                                         *)
(***************************************************************************)
\* fetchSortedConversations: the summaries of the created sessions, sorted by
\* lastModifiedTime, newest first; the sort is stable, so sessions of equal
\* time keep the order of the response
RECURSIVE InsertByTime(_, _, _)
InsertByTime(sorted, s, summaries) ==
    IF sorted = <<>> THEN <<s>>
    ELSE IF summaries[sorted[Len(sorted)]] >= summaries[s]
         THEN Append(sorted, s)
         ELSE Append(InsertByTime(SubSeq(sorted, 1, Len(sorted) - 1), s, summaries),
                     sorted[Len(sorted)])

RECURSIVE SortByTime(_, _)
SortByTime(items, summaries) ==
    IF items = <<>> THEN <<>>
    ELSE InsertByTime(SortByTime(SubSeq(items, 1, Len(items) - 1), summaries),
                      items[Len(items)], summaries)

fetchSortedConversations(summaries) ==
    LET Created(s) == summaries[s] > 0
    IN  SortByTime(SelectSeq(SessionOrder, Created), summaries)

\* getLatestConversation: items[0], or null
getLatestConversation(summaries) ==
    LET items == fetchSortedConversations(summaries)
    IN  IF Len(items) > 0
        THEN [t |-> "summary", cascadeId |-> items[1], lastModifiedTime |-> summaries[items[1]]]
        ELSE NoSession

\* the requests of LSClient
ListRequest(port) == [st |-> "sent", method |-> "GetAllCascadeTrajectories", port |-> port]
MetaRequest(port, cascadeId, offset) ==
    [st |-> "sent", method |-> "GetCascadeTrajectoryGeneratorMetadata", port |-> port,
     cascadeId |-> cascadeId, offset |-> offset]
StepsRequest(port, cascadeId, offset) ==
    [st |-> "sent", method |-> "GetCascadeTrajectorySteps", port |-> port,
     cascadeId |-> cascadeId, offset |-> offset]
ScanRequest == [st |-> "sent", method |-> "scanEnvironment"]

\* fetchSessionData up to its first await: the locals of the loop and the first
\* metadata request
BeginFetch(c, latest, cachedEntry, startMetaOffset, startStepOffset) ==
    [c EXCEPT !.pc = "meta", !.latest = latest, !.cachedEntry = cachedEntry,
              !.startMetaOffset = startMetaOffset, !.startStepOffset = startStepOffset,
              !.metaOffset = startMetaOffset, !.stepOffset = startStepOffset,
              !.metadata = <<>>, !.steps = <<>>, !.apiCalls = 1]

\* a metadata loop that counts pages instead of records
TakeMetaBatchByPage(c, batch) ==
    [c EXCEPT !.metadata = @ \o batch, !.metaOffset = @ + 1, !.apiCalls = @ + 1]

\* the metadata loop on a non-empty batch
TakeMetaBatch(c, batch) ==
    [c EXCEPT !.metadata = @ \o batch, !.metaOffset = @ + Len(batch), !.apiCalls = @ + 1]

\* the metadata loop breaks on an empty batch and the steps loop starts
BeginSteps(c) == [c EXCEPT !.pc = "steps", !.apiCalls = @ + 1]

\* the steps loop on a non-empty batch
TakeStepBatch(c, batch) ==
    [c EXCEPT !.steps = @ \o batch, !.stepOffset = @ + Len(batch), !.apiCalls = @ + 1]

(***************************************************************************)
(* extension.ts: AltimeterViewProvider._fetchCurrentSessionStats           *)
(***************************************************************************)
\* a check of the entry that does not look at the session it names
MatchesAnyEntry(cachedEntry, latest) == cachedEntry.t = "entry"

\* line 162: the cached entry is of the latest conversation
MatchesCascade(cachedEntry, latest) ==
    cachedEntry.t = "entry" /\ cachedEntry.cascadeId = latest.cascadeId

\* a check that compares the time the entry was stored at
UpToDateByStoreTime(cachedEntry, latest, force) ==
    ~force /\ cachedEntry.timestamp = latest.lastModifiedTime

\* a check that does not look at force
UpToDateForced(cachedEntry, latest, force) ==
    cachedEntry.lastModifiedTime = latest.lastModifiedTime

\* a check that trusts every entry of the latest conversation
UpToDateAlways(cachedEntry, latest, force) == ~force

\* line 164: nothing new can exist
UpToDate(cachedEntry, latest, force) ==
    ~force /\ cachedEntry.lastModifiedTime = latest.lastModifiedTime

\* a store after a delta fetch that keeps the offsets of the entry read
DeltaEntryStaleOffsets(c, now) ==
    CacheSet(c.latest.cascadeId, c.latest.lastModifiedTime,
             mergeStats(c.cachedEntry.stats, calculateStats(c.metadata, c.steps)),
             c.cachedEntry.nextMetaOffset, c.cachedEntry.nextStepOffset, now)

\* a store after a delta fetch that, when nothing was fetched, keeps the
\* lastModifiedTime of the entry read
DeltaEntryKeepsTime(c, now) ==
    IF Len(c.metadata) > 0 \/ Len(c.steps) > 0
    THEN CacheSet(c.latest.cascadeId, c.latest.lastModifiedTime,
                  mergeStats(c.cachedEntry.stats, calculateStats(c.metadata, c.steps)),
                  c.metaOffset, c.stepOffset, now)
    ELSE CacheSet(c.latest.cascadeId, c.cachedEntry.lastModifiedTime, c.cachedEntry.stats,
                  c.cachedEntry.nextMetaOffset, c.cachedEntry.nextStepOffset, now)

\* lines 181-212: the entry stored after a delta fetch
DeltaEntry(c, now) ==
    IF Len(c.metadata) > 0 \/ Len(c.steps) > 0
    THEN CacheSet(c.latest.cascadeId, c.latest.lastModifiedTime,
                  mergeStats(c.cachedEntry.stats, calculateStats(c.metadata, c.steps)),
                  c.metaOffset, c.stepOffset, now)
    ELSE CacheSet(c.latest.cascadeId, c.latest.lastModifiedTime, c.cachedEntry.stats,
                  c.cachedEntry.nextMetaOffset, c.cachedEntry.nextStepOffset, now)

\* lines 217-229: the entry stored after a fetch of everything
FreshEntry(c, now) ==
    CacheSet(c.latest.cascadeId, c.latest.lastModifiedTime,
             calculateStats(c.metadata, c.steps), c.metaOffset, c.stepOffset, now)

\* _updateHtml: renders the state if the view is set
UpdateHtml(state) == IF view THEN state ELSE shown

\* lines 135-139: the line logged before the sessions are asked for
StartLog(force) == IF force THEN "Forced refresh..." ELSE "Fetching latest conversation..."

\* lines 123-141 up to the first await: without a client the invocation scans,
\* with one it asks for the sessions
Begin(t, force) ==
    IF client = 0
    THEN /\ cycle' = [cycle EXCEPT ![t] = [Idle EXCEPT !.pc = "scan", !.force = force]]
         /\ inflight' = [inflight EXCEPT ![t] = ScanRequest]
         /\ UNCHANGED log
    ELSE /\ cycle' = [cycle EXCEPT ![t] =
                         [Idle EXCEPT !.pc = "list", !.force = force, !.svc = client]]
         /\ inflight' = [inflight EXCEPT ![t] = ListRequest(client)]
         /\ log' = StartLog(force)

\* resolveWebviewView: sets the view, renders the loading state and starts the
\* first fetch (the timer starts with it)
ResolveWebviewView ==
    /\ ~view
    /\ view' = TRUE
    /\ shown' = [kind |-> "loading"]
    /\ Begin("timer", FALSE)
    /\ UNCHANGED <<apart, backend, client, cache>>

\* lines 118-141: a trigger starts an invocation
Start(t) ==
    /\ view
    /\ cycle[t].pc = "idle"
    /\ Begin(t, ForceOf(t))
    /\ UNCHANGED <<apart, backend, view, client, cache, shown>>

\* a trigger while no invocation is running
StartAlone(t) ==
    /\ \A u \in Triggers : cycle[u].pc = "idle"
    /\ Start(t)

\* a catch that also invalidates the cache
FailsInvalidating(t, line, message) ==
    /\ log' = line
    /\ shown' = UpdateHtml([kind |-> "error", error |-> message])
    /\ cycle' = [cycle EXCEPT ![t] = Idle]
    /\ inflight' = [inflight EXCEPT ![t] = NoRequest]
    /\ cache' = NoEntry
    /\ UNCHANGED <<apart, backend, view, client>>

\* the early returns and the catch of lines 236-239: the error is logged and
\* rendered and the invocation ends
Fails(t, line, message) ==
    /\ log' = line
    /\ shown' = UpdateHtml([kind |-> "error", error |-> message])
    /\ cycle' = [cycle EXCEPT ![t] = Idle]
    /\ inflight' = [inflight EXCEPT ![t] = NoRequest]
    /\ UNCHANGED <<apart, backend, view, client, cache>>

\* hunter.scanEnvironment() returns: the running backend's port, or null (0)
ScanReturns(t) ==
    /\ inflight[t] = ScanRequest
    /\ \E result \in {0, lsPort} :
           inflight' = [inflight EXCEPT ![t] =
                           [st |-> "ok", method |-> "scanEnvironment", result |-> result]]
    /\ UNCHANGED <<apart, backend, view, client, cache, shown, log, cycle>>

\* lines 126-141: after the scan; a found backend becomes the client
ResumeScan(t) ==
    /\ cycle[t].pc = "scan"
    /\ inflight[t].st = "ok"
    /\ IF inflight[t].result = 0
       THEN Fails(t, log, "Language Server not found")
       ELSE /\ client' = inflight[t].result
            /\ cycle' = [cycle EXCEPT ![t] = [@ EXCEPT !.pc = "list", !.svc = client']]
            /\ inflight' = [inflight EXCEPT ![t] = ListRequest(client')]
            /\ log' = StartLog(cycle[t].force)
            /\ UNCHANGED <<apart, backend, view, cache, shown>>

\* the page of a stream at an offset: what is left of it, up to n records
Page(stream, offset, n) ==
    IF offset >= Len(stream) THEN <<>>
    ELSE SubSeq(stream, offset + 1, IF offset + n > Len(stream) THEN Len(stream) ELSE offset + n)

\* the backend's answer to a request of LSClient
Answer(request, n) ==
    CASE request.method = "GetAllCascadeTrajectories" ->
             [st |-> "ok", method |-> request.method, summaries |-> modified]
      [] request.method = "GetCascadeTrajectoryGeneratorMetadata" ->
             [st |-> "ok", method |-> request.method,
              batch |-> Page(metaStream[request.cascadeId], request.offset, n)]
      [] request.method = "GetCascadeTrajectorySteps" ->
             [st |-> "ok", method |-> request.method,
              batch |-> Page(stepStream[request.cascadeId], request.offset, n)]

\* LSClient.makeRequest: the post is answered by the backend that listens on the
\* client's port
LSResponds(t) ==
    /\ inflight[t].st = "sent"
    /\ inflight[t] # ScanRequest
    /\ inflight[t].port = lsPort
    /\ \E n \in 1..MaxPage : inflight' = [inflight EXCEPT ![t] = Answer(inflight[t], n)]
    /\ UNCHANGED <<apart, backend, view, client, cache, shown, log, cycle>>

\* LSClient.makeRequest throws (no backend on the port, a timeout, a status that
\* is no success): the await of the invocation throws and its catch runs
RequestFails(t) ==
    /\ inflight[t].st = "sent"
    /\ inflight[t] # ScanRequest
    /\ Fails(t, "Error", "request failed")

\* lines 168-172: the line logged before a delta fetch
DeltaLog(force) ==
    IF force
    THEN "Forced delta fetch despite timestamp."
    ELSE "Found cached session but timestamp updated. Fetching delta..."

\* lines 141-180 and 214-217: after the list of sessions
ResumeList(t) ==
    /\ cycle[t].pc = "list"
    /\ inflight[t].st = "ok"
    /\ LET c == cycle[t]
                latest == getLatestConversation(inflight[t].summaries)
                cachedEntry == cache
            IN  IF latest = NoSession
                THEN Fails(t, "No latest conversation found", "No active session found")
                ELSE IF MatchesCascade(cachedEntry, latest)
                THEN IF UpToDate(cachedEntry, latest, c.force)
                     THEN /\ log' = "Cache is up to date"
                          /\ shown' = UpdateHtml([kind |-> "stats", stats |-> cachedEntry.stats])
                          /\ cycle' = [cycle EXCEPT ![t] = Idle]
                          /\ inflight' = [inflight EXCEPT ![t] = NoRequest]
                          /\ UNCHANGED <<apart, backend, view, client, cache>>
                     ELSE /\ log' = DeltaLog(c.force)
                          /\ cycle' = [cycle EXCEPT ![t] =
                                 BeginFetch(c, latest, cachedEntry, cachedEntry.nextMetaOffset,
                                            cachedEntry.nextStepOffset)]
                          /\ inflight' = [inflight EXCEPT ![t] =
                                 MetaRequest(c.svc, latest.cascadeId, cachedEntry.nextMetaOffset)]
                          /\ UNCHANGED <<apart, backend, view, client, cache, shown>>
                ELSE /\ log' = "Fetching fresh data"
                     /\ cycle' = [cycle EXCEPT ![t] = BeginFetch(c, latest, NoEntry, 0, 0)]
                     /\ inflight' = [inflight EXCEPT ![t] = MetaRequest(c.svc, latest.cascadeId, 0)]
                     /\ UNCHANGED <<apart, backend, view, client, cache, shown>>

\* ConversationService lines 78-95: after a metadata page
ResumeMeta(t) ==
    /\ cycle[t].pc = "meta"
    /\ inflight[t].st = "ok"
    /\ LET c == cycle[t]
                batch == inflight[t].batch
            IN  /\ IF Len(batch) = 0
                   THEN /\ cycle' = [cycle EXCEPT ![t] = BeginSteps(c)]
                        /\ inflight' = [inflight EXCEPT ![t] =
                               StepsRequest(c.svc, c.latest.cascadeId, c.stepOffset)]
                   ELSE /\ cycle' = [cycle EXCEPT ![t] = TakeMetaBatch(c, batch)]
                        /\ inflight' = [inflight EXCEPT ![t] =
                               MetaRequest(c.svc, c.latest.cascadeId, cycle'[t].metaOffset)]
                /\ UNCHANGED <<apart, backend, view, client, cache, shown, log>>

\* lines 181-234: the last line logged once the fetch has returned
StoredLog(c) ==
    IF c.cachedEntry.t = "entry" /\ Len(c.metadata) = 0 /\ Len(c.steps) = 0
    THEN "No new items found despite updated timestamp."
    ELSE "Stats Update"

\* ConversationService lines 95-110 and extension.ts lines 181-235: after a steps
\* page; on the empty one the fetch returns and the entry is stored and rendered
ResumeSteps(t) ==
    /\ cycle[t].pc = "steps"
    /\ inflight[t].st = "ok"
    /\ LET c == cycle[t]
                batch == inflight[t].batch
            IN  IF Len(batch) > 0
                THEN /\ cycle' = [cycle EXCEPT ![t] = TakeStepBatch(c, batch)]
                     /\ inflight' = [inflight EXCEPT ![t] =
                            StepsRequest(c.svc, c.latest.cascadeId, cycle'[t].stepOffset)]
                     /\ UNCHANGED <<apart, backend, view, client, cache, shown, log>>
                ELSE /\ cache' = IF c.cachedEntry.t = "entry"
                                 THEN DeltaEntry(c, clock)
                                 ELSE FreshEntry(c, clock)
                     /\ log' = StoredLog(c)
                     /\ shown' = UpdateHtml([kind |-> "stats", stats |-> cache'.stats])
                     /\ cycle' = [cycle EXCEPT ![t] = Idle]
                     /\ inflight' = [inflight EXCEPT ![t] = NoRequest]
                     /\ UNCHANGED <<apart, backend, view, client>>

(***************************************************************************)
(* The backend.                                                            *)
(***************************************************************************)
TotalRecords(stream) ==
    LET RECURSIVE Sum(_)
        Sum(S) == IF S = {} THEN 0
                  ELSE LET s == CHOOSE x \in S : TRUE IN Len(stream[s]) + Sum(S \ {s})
    IN  Sum(Sessions)

\* the session's lastModifiedTime after a change at the clock's next value, or
\* left as it is
Bump(s, bump) ==
    IF bump
    THEN /\ clock < MaxClock
         /\ clock' = clock + 1
         /\ modified' = [modified EXCEPT ![s] = clock + 1]
    ELSE /\ modified[s] > 0
         /\ UNCHANGED <<clock, modified>>

extension == <<view, client, cache, shown, log, cycle, inflight>>

\* the backend appends a metadata record to a session
AppendMeta(s, bump) ==
    /\ TotalRecords(metaStream) + TotalRecords(stepStream) < MaxAppends
    /\ \E r \in MetaChoices : metaStream' = [metaStream EXCEPT ![s] = Append(@, r)]
    /\ Bump(s, bump)
    /\ UNCHANGED <<stepStream, lsPort, extension, apart>>

\* the backend appends a step record to a session
AppendStep(s, bump) ==
    /\ TotalRecords(metaStream) + TotalRecords(stepStream) < MaxAppends
    /\ \E r \in StepChoices : stepStream' = [stepStream EXCEPT ![s] = Append(@, r)]
    /\ Bump(s, bump)
    /\ UNCHANGED <<metaStream, lsPort, extension, apart>>

\* the backend creates or touches a session without adding a record
Touch(s) ==
    /\ Bump(s, TRUE)
    /\ UNCHANGED <<metaStream, stepStream, lsPort, extension, apart>>

\* the backend restarts on another port; its sessions are kept
Restart ==
    /\ lsPort < MaxPort
    /\ lsPort' = lsPort + 1
    /\ UNCHANGED <<metaStream, stepStream, modified, clock, extension, apart>>

\* the backend changes a session and sets its lastModifiedTime
Backend == \E s \in Sessions : AppendMeta(s, TRUE) \/ AppendStep(s, TRUE) \/ Touch(s)

\* the backend appends a record within the resolution of lastModifiedTime
SilentAppend == \E s \in Sessions : AppendMeta(s, FALSE) \/ AppendStep(s, FALSE)

Resume(t) == ScanReturns(t) \/ ResumeScan(t) \/ LSResponds(t) \/ RequestFails(t)
                 \/ ResumeList(t) \/ ResumeMeta(t) \/ ResumeSteps(t)

\* refresh cycles may overlap
Next == ResolveWebviewView \/ Backend \/ \E t \in Triggers : Start(t) \/ Resume(t)

Spec == Init /\ [][Next]_vars

\* refresh cycles do not overlap
NextSeq ==
    \/ ResolveWebviewView
    \/ Backend
    \/ SilentAppend
    \/ \E t \in Triggers : StartAlone(t) \/ Resume(t)

SpecSeq == Init /\ [][NextSeq]_vars

\* refresh cycles do not overlap; the backend sets the lastModifiedTime of a
\* session with every record it appends
NextAppend ==
    \/ ResolveWebviewView
    \/ Backend
    \/ \E t \in Triggers : StartAlone(t) \/ Resume(t)

SpecAppend == Init /\ [][NextAppend]_vars

\* the backend drops the last record of a stream of a session (the conversation
\* is reverted to an earlier step) and sets the session's lastModifiedTime
Truncate(s) ==
    /\ \/ /\ Len(metaStream[s]) > 0
          /\ metaStream' = [metaStream EXCEPT ![s] = SubSeq(@, 1, Len(@) - 1)]
          /\ UNCHANGED stepStream
       \/ /\ Len(stepStream[s]) > 0
          /\ stepStream' = [stepStream EXCEPT ![s] = SubSeq(@, 1, Len(@) - 1)]
          /\ UNCHANGED metaStream
    /\ Bump(s, TRUE)
    /\ UNCHANGED <<lsPort, extension, apart>>

\* refresh cycles do not overlap; the streams of the backend may lose records
NextShrink ==
    \/ ResolveWebviewView
    \/ Backend
    \/ \E s \in Sessions : Truncate(s)
    \/ \E t \in Triggers : StartAlone(t) \/ Resume(t)

SpecShrink == Init /\ [][NextShrink]_vars

\* one poll after the other against a backend that restarts: the timer fires
\* every 60 s once the view is resolved, and every request is answered or
\* fails within the HTTP timeout
NextLive ==
    \/ ResolveWebviewView
    \/ Restart
    \/ \E s \in Sessions : Touch(s)
    \/ StartAlone("timer")
    \/ Resume("timer")

SpecLive ==
    /\ Init
    /\ [][NextLive]_vars
    /\ WF_vars(ResolveWebviewView)
    /\ WF_vars(StartAlone("timer"))
    /\ WF_vars(Resume("timer"))

(***************************************************************************)
(* ProcessHunter: scanEnvironment and what it awaits. The process table,   *)
(* the port lists, the probes and the answers of the language servers are  *)
(* the environment's choice at every await.                                *)
(***************************************************************************)
\* values of maxAttempts (the callers pass none: the default is 3)
MaxScanAttempts == 3
\* candidates one enumeration yields
MaxCandidates == 2
\* most-recent session timestamps of a language server besides '' (0)
MaxTime == 2

Platforms == {"win32", "linux"}

\* what parseListeningPorts returns: lists of distinct ports
PortLists ==
    UNION { {f \in [1..n -> 1..MaxPort] : \A a, b \in 1..n : a # b => f[a] # f[b]} :
            n \in 0..MaxPort }

\* how a probe ends: a status, an error or a timeout
ProbeOutcomes == {"200", "503", "error", "timeout"}

NoHandle == [t |-> "null"]
\* an EnvironmentScanResult: connectPort, and the candidate whose csrfToken and
\* extensionPort it carries
Handle(pid, port) == [t |-> "handle", pid |-> pid, connectPort |-> port]

\* the locals of scanEnvironment(maxAttempts) before its first statement
FreshScan(maxAttempts, platform) ==
    [pc |-> "start", maxAttempts |-> maxAttempts, platform |-> platform,
     phase |-> "name", i |-> 0, n |-> 0, k |-> 0, ports |-> <<>>, j |-> 0,
     verify |-> "none", probes |-> <<>>, validPort |-> 0,
     validResults |-> <<>>, ran |-> <<>>, caught |-> 0, delays |-> {},
     result |-> NoHandle]

\* return result
Return(h, result) == [h EXCEPT !.pc = "done", !.result = result]

\* runDiagnostics is called
RunDiagnostics(h) == [h EXCEPT !.pc = "diagnostics", !.ran = Append(@, "diagnostics")]

\* scanEnvironment after scanByProcessName returned null
AfterProcessName(h) ==
    IF h.platform = "win32"
    THEN [h EXCEPT !.phase = "keyword", !.pc = "list", !.ran = Append(@, "keyword")]
    ELSE RunDiagnostics(h)

\* a loop head that admits one attempt more
EnterLoopOnceMore(h) ==
    IF h.i <= h.maxAttempts
    THEN [h EXCEPT !.pc = "list", !.ran = Append(@, "name")]
    ELSE AfterProcessName(h)

\* the head of the for loop of scanByProcessName
EnterLoop(h) ==
    IF h.i < h.maxAttempts
    THEN [h EXCEPT !.pc = "list", !.ran = Append(@, "name")]
    ELSE AfterProcessName(h)

\* continue, or the end of the loop's body
Continue(h) == EnterLoop([h EXCEPT !.i = @ + 1])

\* an exception of the attempt ends the scan
RethrowAttempt(h) == [h EXCEPT !.pc = "raised"]

\* the catch of scanByProcessName: the error is logged and, after the retry
\* delay that follows every attempt but the last, the loop goes on; delays
\* holds the attempts after which the delay was awaited
CatchAttempt(h) ==
    Continue([h EXCEPT !.caught = @ + 1,
                       !.delays = IF h.i < h.maxAttempts - 1 THEN @ \cup {h.i} ELSE @])

\* validResults.sort((a, b) => b.latestTime.localeCompare(a.latestTime)): stable
RECURSIVE InsertByLatestTime(_, _)
InsertByLatestTime(sorted, v) ==
    IF sorted = <<>> THEN <<v>>
    ELSE IF sorted[Len(sorted)].latestTime >= v.latestTime
         THEN Append(sorted, v)
         ELSE Append(InsertByLatestTime(SubSeq(sorted, 1, Len(sorted) - 1), v),
                     sorted[Len(sorted)])

RECURSIVE SortByLatestTime(_)
SortByLatestTime(validResults) ==
    IF validResults = <<>> THEN <<>>
    ELSE InsertByLatestTime(SortByLatestTime(SubSeq(validResults, 1, Len(validResults) - 1)),
                            validResults[Len(validResults)])

\* a choice that takes the first verified candidate
SelectFirst(validResults) == validResults[1].result

\* scanByProcessName lines 101-112: the handle chosen among the valid results
SelectLatest(validResults) ==
    IF Len(validResults) = 1
    THEN validResults[1].result
    ELSE SortByLatestTime(validResults)[1].result

\* after the last candidate of an enumeration
EndOfCandidates(h) ==
    IF h.phase = "name"
    THEN IF Len(h.validResults) = 0
         THEN Continue(h)
         ELSE Return(h, SelectLatest(h.validResults))
    ELSE RunDiagnostics(h)

\* the loop over the candidates goes on
NextCandidate(h) ==
    IF h.k < h.n
    THEN [h EXCEPT !.k = @ + 1, !.pc = "ports"]
    ELSE EndOfCandidates(h)

\* verifyAndConnect after verifyConnection returned a port: scanByProcessName
\* asks the server for its latest session, scanByKeyword returns the handle
Verified(h, port) ==
    IF h.phase = "name"
    THEN [h EXCEPT !.verify = "returned", !.validPort = port, !.pc = "time"]
    ELSE Return([h EXCEPT !.verify = "returned", !.validPort = port], Handle(h.k, port))

\* a verifyConnection that gives up at the first probe that does not succeed
verifyConnectionGivesUp(h, outcome) ==
    LET probed == [h EXCEPT !.probes = Append(@, [port |-> h.ports[h.j], outcome |-> outcome])]
    IN  IF outcome = "200"
        THEN Verified(probed, h.ports[h.j])
        ELSE NextCandidate([probed EXCEPT !.verify = "returned"])

\* verifyConnection: the body of its loop for the port at j, once pingPort has
\* resolved (true for status 200, false for another status, an error, a timeout)
verifyConnection(h, outcome) ==
    LET probed == [h EXCEPT !.probes = Append(@, [port |-> h.ports[h.j], outcome |-> outcome])]
    IN  IF outcome = "200"
        THEN Verified(probed, h.ports[h.j])
        ELSE IF h.j < Len(h.ports)
             THEN [probed EXCEPT !.j = @ + 1]
             ELSE NextCandidate([probed EXCEPT !.verify = "returned"])

\* getLatestConversationTime: the greatest lastModifiedTime of the summaries,
\* '' (0) for none
LatestTimeOf(summaries) ==
    LET times == {summaries[s] : s \in DOMAIN summaries}
    IN  CHOOSE m \in times \cup {0} : \A x \in times : x <= m

\* the rest of the state, which a scan leaves alone
beside == <<metaStream, stepStream, modified, clock, lsPort, view, client, cache, shown,
            log, cycle, inflight, call>>

\* scanEnvironment(maxAttempts) is called and scanByProcessName enters its loop
ScanEnvironment ==
    /\ hunter = NoScan
    /\ \E maxAttempts \in 1..MaxScanAttempts, platform \in Platforms :
           hunter' = EnterLoop(FreshScan(maxAttempts, platform))
    /\ UNCHANGED beside

\* the process-list command settles: it fails or times out, prints nothing, or
\* prints what parseProcessInfo reads as n candidates
ListReturns ==
    /\ hunter.pc = "list"
    /\ \E out \in {"error", "empty", "parsed"}, n \in 0..MaxCandidates :
           /\ out # "parsed" => n = 0
           /\ hunter' =
               IF out = "error"
               THEN IF hunter.phase = "name"
                    THEN CatchAttempt(hunter)
                    ELSE RunDiagnostics([hunter EXCEPT !.caught = @ + 1])
               ELSE IF n = 0
               THEN IF hunter.phase = "name" THEN Continue(hunter) ELSE EndOfCandidates(hunter)
               ELSE [hunter EXCEPT !.n = n, !.k = 1, !.validResults = <<>>, !.pc = "ports"]
    /\ UNCHANGED beside

\* identifyPorts returns: the ports the candidate listens on, [] when the
\* port-list command failed; verifyAndConnect probes them if there are any
PortsReturn ==
    /\ hunter.pc = "ports"
    /\ \E ports \in PortLists, failed \in BOOLEAN :
           /\ failed => ports = <<>>
           /\ hunter' =
               IF Len(ports) > 0
               THEN [hunter EXCEPT !.ports = ports, !.j = 1, !.probes = <<>>,
                                   !.validPort = 0, !.verify = "running", !.pc = "probe"]
               ELSE NextCandidate([hunter EXCEPT !.caught = IF failed THEN @ + 1 ELSE @])
    /\ UNCHANGED beside

\* pingPort resolves
ProbeReturns ==
    /\ hunter.pc = "probe"
    /\ \E outcome \in ProbeOutcomes : hunter' = verifyConnection(hunter, outcome)
    /\ UNCHANGED beside

\* getLatestConversationTime returns: the latest time of the server's
\* summaries, null when the request failed; the valid result is pushed
TimeReturns ==
    /\ hunter.pc = "time"
    /\ \E latestTime \in {0} \cup {LatestTimeOf(sm) : sm \in [Sessions -> 0..MaxTime]} :
           hunter' = NextCandidate(
               [hunter EXCEPT !.validResults =
                   Append(@, [result |-> Handle(hunter.k, hunter.validPort),
                              latestTime |-> latestTime])])
    /\ UNCHANGED beside

\* runDiagnostics returns (a failure of its command is caught and logged) and
\* scanEnvironment returns null
DiagnosticsReturns ==
    /\ hunter.pc = "diagnostics"
    /\ \E failed \in BOOLEAN :
           hunter' = Return([hunter EXCEPT !.caught = IF failed THEN @ + 1 ELSE @], NoHandle)
    /\ UNCHANGED beside

\* an await of the scan settles
HunterStep == ListReturns \/ PortsReturn \/ ProbeReturns \/ TimeReturns \/ DiagnosticsReturns

NextHunter == ScanEnvironment \/ HunterStep

\* every command and request of the scan settles: the commands exit or hit
\* their timeouts, the probes and requests answer, fail or time out
SpecHunter == Init /\ [][NextHunter]_vars /\ WF_vars(HunterStep)

(***************************************************************************)
(* StatsService called on its own: calculateStats on batches of records    *)
(* and mergeStats on aggregates.                                           *)
(***************************************************************************)
\* entries of a modelBreakdown
MaxBreakdown == 2
\* records of a batch
MaxBatch == 2

\* display names of a breakdown: of a model outside the catalog, of one of the
\* catalog, and one that Object.prototype holds as a key
BreakdownNames == {"custom-x", "Gemini 3 Flash", "constructor"}

ModelEntry(displayName, calls) ==
    [displayName |-> displayName, calls |-> calls, input |-> 100 * calls,
     output |-> 10 * calls, cacheRead |-> calls]

BreakdownEntries == {ModelEntry(name, calls) : name \in BreakdownNames, calls \in {5, 10}}

\* breakdowns with at most one entry per display name
Breakdowns ==
    UNION { {b \in [1..n -> BreakdownEntries] :
                 \A i, j \in 1..n : i # j => b[i].displayName # b[j].displayName} :
            n \in 0..MaxBreakdown }

\* aggregates: with and without calls, with and without input, with a context
\* size or none
Aggregates ==
    { [totalCalls |-> calls, totalInput |-> input, totalOutput |-> 2 * calls,
       totalCacheRead |-> calls + input, lastContextSize |-> context, modelBreakdown |-> b] :
      calls \in {0, 3}, input \in {0, 40}, context \in {0, 7}, b \in Breakdowns }

\* metadata records: tokens as numeric strings, numbers, a non-numeric string
\* and missing fields; the model named by chatModel.model, by usage.model, or
\* not at all; a model id that Object.prototype has a member for
MetaInputs ==
    MetaChoices \cup
    { MetaRecord(Str("MODEL_PLACEHOLDER_M18", {}), Str("custom-x", {}),
                 Num(10), Missing, Num(2), Num(5), Missing),
      MetaRecord(Missing, Str("constructor", {}), Num(6), Num(1), Missing, Missing, Missing),
      MetaRecord(Missing, Missing, Missing, Missing, Missing, Missing, Missing) }

\* step records: usage in step.modelUsage, in step.metadata.modelUsage, nowhere
StepInputs ==
    StepChoices \cup
    { StepRecord("CORTEX_STEP_TYPE_PLANNER_RESPONSE", Missing,
                 Usage(Str("MODEL_PLACEHOLDER_M18", {}), Num(2), Str("7", {7}), Num(1))),
      StepRecord("CORTEX_STEP_TYPE_USER_INPUT", Missing, Missing) }

Batches(records) == UNION { [1..n -> records] : n \in 0..MaxBatch }

\* the rest of the state, which StatsService leaves alone
aside == <<metaStream, stepStream, modified, clock, lsPort, view, client, cache, shown,
           log, cycle, inflight, hunter>>

\* StatsService.mergeStats(base, delta) is called
CallMergeStats ==
    /\ call = NoCall
    /\ \E base \in Aggregates, delta \in Aggregates :
           call' = [op |-> "mergeStats", st |-> "called", base |-> base, delta |-> delta]
    /\ UNCHANGED aside

\* StatsService.calculateStats(metadata, steps) is called
CallCalculateStats ==
    /\ call = NoCall
    /\ \E metadata \in Batches(MetaInputs), steps \in Batches(StepInputs) :
           call' = [op |-> "calculateStats", st |-> "called",
                    metadata |-> metadata, steps |-> steps]
    /\ UNCHANGED aside

\* mergeStats returns
MergeStatsReturns ==
    /\ call.op = "mergeStats"
    /\ call.st = "called"
    /\ call' = [op |-> "mergeStats", st |-> "returned", base |-> call.base,
                delta |-> call.delta, result |-> mergeStats(call.base, call.delta)]
    /\ UNCHANGED aside

\* calculateStats returns
CalculateStatsReturns ==
    /\ call.op = "calculateStats"
    /\ call.st = "called"
    /\ call' = [op |-> "calculateStats", st |-> "returned", metadata |-> call.metadata,
                steps |-> call.steps, result |-> calculateStats(call.metadata, call.steps)]
    /\ UNCHANGED aside

NextStats ==
    CallMergeStats \/ CallCalculateStats \/ MergeStatsReturns \/ CalculateStatsReturns

SpecStats == Init /\ [][NextStats]_vars

(***************************************************************************)
(* Number arithmetic of calculateCacheEfficiency: IEEE 754 binary64.  A    *)
(* positive double is its significand, Precision bits with the first bit   *)
(* set, and its exponent: the value is 0.sig (binary) times 2^exp.  Bit    *)
(* sequences have the most significant bit first.                          *)
(***************************************************************************)
Precision == 53

Zeros(n) == [i \in 1..n |-> 0]

FloatZero == [sig |-> <<>>, exp |-> 0]

\* the n bits of q, 0 <= q < 2^n
BitsOf(q, n) == [i \in 1..n |-> (q \div 2^(n - i)) % 2]

RECURSIVE BitsToInt(_)
BitsToInt(bits) ==
    IF bits = <<>> THEN 0
    ELSE 2 * BitsToInt(SubSeq(bits, 1, Len(bits) - 1)) + bits[Len(bits)]

\* long division, eight bits at a time: 8n more bits of r / t (0 <= r < t)
\* after those of bits, and the remainder left
RECURSIVE DivideBits(_, _, _, _)
DivideBits(r, t, n, bits) ==
    IF n = 0 THEN [bits |-> bits, r |-> r]
    ELSE DivideBits((256 * r) % t, t, n - 1, bits \o BitsOf((256 * r) \div t, 8))

\* bits + 1, of the same length (all ones wrap to all zeros)
RECURSIVE Increment(_)
Increment(bits) ==
    IF bits = <<>> THEN <<>>
    ELSE IF bits[Len(bits)] = 0 THEN [bits EXCEPT ![Len(bits)] = 1]
    ELSE Append(Increment(SubSeq(bits, 1, Len(bits) - 1)), 0)

\* the double nearest to 0.bits times 2^exp, ties to the even significand;
\* bits starts with a set bit, and sticky tells of set bits below bits
RoundToNearest(bits, sticky, exp) ==
    LET padded == bits \o Zeros(Precision + 1)
        kept == SubSeq(padded, 1, Precision)
        guard == padded[Precision + 1]
        below == sticky \/ \E i \in (Precision + 2)..Len(bits) : bits[i] = 1
        up == guard = 1 /\ (below \/ kept[Precision] = 1)
        next == Increment(kept)
    IN  IF ~up THEN [sig |-> kept, exp |-> exp]
        ELSE IF next[1] = 1 THEN [sig |-> next, exp |-> exp]
        ELSE [sig |-> <<1>> \o Zeros(Precision - 1), exp |-> exp + 1]

\* how many zeros bits starts with
RECURSIVE LeadingZeros(_)
LeadingZeros(bits) ==
    IF bits = <<>> \/ bits[1] = 1 THEN 0 ELSE 1 + LeadingZeros(Tail(bits))

\* how often c is doubled until it is half of t or more
RECURSIVE Doublings(_, _)
Doublings(c, t) == IF 2 * c >= t THEN 0 ELSE 1 + Doublings(2 * c, t)

\* c / t in binary64, for integers 0 <= c <= t, t > 0
FloatDiv(c, t) ==
    IF c = 0 THEN FloatZero
    ELSE IF c = t THEN [sig |-> <<1>> \o Zeros(Precision - 1), exp |-> 1]
    ELSE LET z == Doublings(c, t)
             q == DivideBits(c * 2^z, t, 7, <<>>)
         IN  RoundToNearest(q.bits, q.r # 0, -z)

\* the bits of 100 times the number of bits: eight bits at a time from the
\* low end, the carry passed on; seven bits longer than bits
RECURSIVE TimesHundred(_, _)
TimesHundred(bits, carry) ==
    IF bits = <<>> THEN BitsOf(carry, 7)
    ELSE LET n == Len(bits)
             low == IF n > 8 THEN SubSeq(bits, n - 7, n) ELSE bits
             p == 100 * BitsToInt(low) + carry
         IN  TimesHundred(SubSeq(bits, 1, n - Len(low)), p \div 2^Len(low))
                 \o BitsOf(p % 2^Len(low), Len(low))

\* x * 100 in binary64
FloatTimes100(x) ==
    IF x = FloatZero THEN FloatZero
    ELSE LET product == TimesHundred(x.sig, 0)
             z == LeadingZeros(product)
         IN  RoundToNearest(SubSeq(product, z + 1, Len(product)), FALSE, x.exp + 7 - z)

\* Math.round(x), x >= 0 below 2^Precision: the integer part, and one more
\* when the fraction is a half or more
MathRound(x) ==
    IF x = FloatZero \/ x.exp < 0 THEN 0
    ELSE BitsToInt(SubSeq(x.sig, 1, x.exp)) + x.sig[x.exp + 1]

\* calculateCacheEfficiency(day)
calculateCacheEfficiency(day) ==
    LET totalInput == day.totals.inputTokens
        cacheRead == day.totals.cacheReadTokens
        totalObservedInput == totalInput + cacheRead
    IN  IF totalObservedInput = 0 THEN 0
        ELSE MathRound(FloatTimes100(FloatDiv(cacheRead, totalObservedInput)))

(***************************************************************************)
(* services/DailyStatsAggregator.ts: local calendar dates and the strings  *)
(* made of them.  A string is the sequence of its characters: the digits   *)
(* 0..9, and -1 for '-', which collates before the digits.                 *)
(***************************************************************************)
CalendarDate(y, m, d) == [y |-> y, m |-> m, d |-> d]

DaysInMonth(y, m) ==
    IF m = 2 THEN (IF (y % 4 = 0 /\ y % 100 # 0) \/ y % 400 = 0 THEN 29 ELSE 28)
    ELSE IF m \in {4, 6, 9, 11} THEN 30 ELSE 31

\* date.setDate(n), n at most the length of the month: day n of the month, and
\* for n below 1 counted back from the end of the month before
RECURSIVE setDate(_, _)
setDate(date, n) ==
    IF n >= 1 THEN [date EXCEPT !.d = n]
    ELSE LET y == IF date.m = 1 THEN date.y - 1 ELSE date.y
             m == IF date.m = 1 THEN 12 ELSE date.m - 1
         IN  setDate(CalendarDate(y, m, 1), n + DaysInMonth(y, m))

\* String(n).padStart(2, '0'), n below 100
padStart(n) == IF n < 10 THEN <<0, n>> ELSE <<n \div 10, n % 10>>

\* 'NaN-NaN-NaN', which an Invalid Date is formatted as; 'Unknown Date'; null
InvalidDateString == [t |-> "NaN-NaN-NaN"]
unknownDateStr == [t |-> "Unknown Date"]
NoDate == [t |-> "null"]

\* the date string of a date in a year of four digits
formatDate(date) ==
    LET year == <<date.y \div 1000, (date.y \div 100) % 10, (date.y \div 10) % 10, date.y % 10>>
    IN  [t |-> "date",
         chars |-> year \o <<-1>> \o padStart(date.m) \o <<-1>> \o padStart(date.d)]

\* a.localeCompare(b) of two strings of digits and '-'
RECURSIVE localeCompare(_, _)
localeCompare(a, b) ==
    IF a = <<>> THEN (IF b = <<>> THEN 0 ELSE -1)
    ELSE IF b = <<>> THEN 1
    ELSE IF a[1] < b[1] THEN -1
    ELSE IF a[1] > b[1] THEN 1
    ELSE localeCompare(Tail(a), Tail(b))

\* a timestamp string, given with the local date new Date(s) makes of it: {date},
\* or {} for an Invalid Date
Instant(s, date) == [t |-> "string", s |-> s, date |-> date]

\* the date string of a timestamp that is not falsy
DateOfTimestamp(timestamp) ==
    IF timestamp.date = {} THEN InvalidDateString
    ELSE formatDate(CHOOSE date \in timestamp.date : TRUE)

\* a metadata item with its timestamp and chatModel.chatStartMetadata.createdAt
DatedItem(timestamp, createdAt, usageModel, chatModelModel, input, output, cacheRead) ==
    [timestamp |-> timestamp, createdAt |-> createdAt,
     usageModel |-> usageModel, chatModelModel |-> chatModelModel,
     inputTokens |-> input, outputTokens |-> output, cacheReadTokens |-> cacheRead]

\* a step with its metadata.createdAt
DatedStep(type, createdAt, modelUsage, metadataModelUsage) ==
    [type |-> type, createdAt |-> createdAt,
     modelUsage |-> modelUsage, metadataModelUsage |-> metadataModelUsage]

extractDateFromItem(item) ==
    LET timestamp == Or(item.timestamp, item.createdAt)
    IN  IF ~Truthy(timestamp) THEN NoDate ELSE DateOfTimestamp(timestamp)

extractDateFromStep(step) ==
    IF ~Truthy(step.createdAt) THEN NoDate ELSE DateOfTimestamp(step.createdAt)

toNumber(val) ==
    IF val.t = "number" THEN val.n
    ELSE IF val.t = "string" THEN OrZero(ParseInt(val))
    ELSE 0

createEmptyDayStats(date) ==
    [date |-> date, models |-> <<>>,
     totals |-> [inputTokens |-> 0, outputTokens |-> 0, cacheReadTokens |-> 0],
     cacheEfficiency |-> 0]

\* the update of day.models[displayName] and day.totals that addItemToDay and
\* addStepToDay share; day.models is an object literal, as modelStats is
Accumulate(day, displayName, input, output, cacheRead) ==
    LET created == IF Reads(day.models, displayName)
                   THEN day.models
                   ELSE Append(day.models,
                               [displayName |-> displayName, inputTokens |-> 0,
                                outputTokens |-> 0, cacheReadTokens |-> 0, calls |-> 0])
        models == IF HasOwn(created, displayName)
                  THEN [created EXCEPT ![IndexOf(created, displayName)] =
                           [@ EXCEPT !.inputTokens = @ + input,
                                     !.outputTokens = @ + output,
                                     !.cacheReadTokens = @ + cacheRead,
                                     !.calls = @ + 1]]
                  ELSE created
    IN  [day EXCEPT !.models = models,
                    !.totals = [inputTokens |-> @.inputTokens + input,
                                outputTokens |-> @.outputTokens + output,
                                cacheReadTokens |-> @.cacheReadTokens + cacheRead]]

addItemToDay(day, item) ==
    LET rawModel == Or(Or(item.usageModel, item.chatModelModel), Str("Unknown", {}))
    IN  Accumulate(day, getModelDisplayName(rawModel.s), toNumber(item.inputTokens),
                   toNumber(item.outputTokens), toNumber(item.cacheReadTokens))

addStepToDay(day, usage) ==
    LET rawModel == Or(usage.model, Str("Unknown", {}))
    IN  Accumulate(day, getModelDisplayName(rawModel.s), toNumber(usage.inputTokens),
                   toNumber(usage.outputTokens), toNumber(usage.cacheReadTokens))

\* dailyMap, a Map from date strings to day stats, in insertion order
MapHas(dailyMap, dateStr) == \E i \in 1..Len(dailyMap) : dailyMap[i].date = dateStr

MapIndex(dailyMap, dateStr) == CHOOSE i \in 1..Len(dailyMap) : dailyMap[i].date = dateStr

MapSet(dailyMap, dateStr, day) ==
    IF MapHas(dailyMap, dateStr)
    THEN [dailyMap EXCEPT ![MapIndex(dailyMap, dateStr)] = day]
    ELSE Append(dailyMap, day)

\* aggregateByDay lines 69-74: the loop that makes the buckets of the days
RECURSIVE InitializeDays(_, _, _, _)
InitializeDays(dailyMap, today, dayCount, i) ==
    IF i >= dayCount THEN dailyMap
    ELSE LET dateStr == formatDate(setDate(today, today.d - i))
         IN  InitializeDays(MapSet(dailyMap, dateStr, createEmptyDayStats(dateStr)),
                            today, dayCount, i + 1)

\* lines 83-106, one metadata item; the map always has the unknown bucket, so
\* an item whose date string the map does not have is passed over
FoldItem(dailyMap, item) ==
    LET extracted == extractDateFromItem(item)
        dateStr == IF extracted = NoDate THEN unknownDateStr ELSE extracted
    IN  IF ~MapHas(dailyMap, dateStr) THEN dailyMap
        ELSE MapSet(dailyMap, dateStr,
                    addItemToDay(dailyMap[MapIndex(dailyMap, dateStr)], item))

\* FoldDatedStep, were a step whose day the window lacks filed under 'Unknown Date'
FoldDatedStepAnyDate(dailyMap, step) ==
    LET usage == StepUsage(step)
        extracted == extractDateFromStep(step)
        dateStr == IF extracted = NoDate \/ ~MapHas(dailyMap, extracted)
                   THEN unknownDateStr ELSE extracted
    IN  IF Truthy(usage) /\ MapHas(dailyMap, dateStr)
        THEN MapSet(dailyMap, dateStr,
                    addStepToDay(dailyMap[MapIndex(dailyMap, dateStr)], usage))
        ELSE dailyMap

\* lines 110-123, one step
FoldDatedStep(dailyMap, step) ==
    LET usage == StepUsage(step)
        extracted == extractDateFromStep(step)
        dateStr == IF extracted = NoDate THEN unknownDateStr ELSE extracted
    IN  IF Truthy(usage) /\ MapHas(dailyMap, dateStr)
        THEN MapSet(dailyMap, dateStr,
                    addStepToDay(dailyMap[MapIndex(dailyMap, dateStr)], usage))
        ELSE dailyMap

RECURSIVE FoldItems(_, _, _)
FoldItems(dailyMap, allMetadata, i) ==
    IF i > Len(allMetadata) THEN dailyMap
    ELSE FoldItems(FoldItem(dailyMap, allMetadata[i]), allMetadata, i + 1)

RECURSIVE FoldDatedSteps(_, _, _)
FoldDatedSteps(dailyMap, steps, i) ==
    IF i > Len(steps) THEN dailyMap
    ELSE FoldDatedSteps(FoldDatedStep(dailyMap, steps[i]), steps, i + 1)

\* lines 127-134: Remove Unknown Date if empty
RemoveUnknownDate(dailyMap) ==
    IF MapHas(dailyMap, unknownDateStr)
    THEN LET unknownStats == dailyMap[MapIndex(dailyMap, unknownDateStr)]
         IN  IF unknownStats.totals.inputTokens = 0 /\ unknownStats.totals.outputTokens = 0
             THEN SelectSeq(dailyMap, LAMBDA day : day.date # unknownDateStr)
             ELSE dailyMap
    ELSE dailyMap

\* CompareDays, were the dated buckets compared the other way round
CompareDaysAscending(a, b) ==
    IF a.date = unknownDateStr THEN 1
    ELSE IF b.date = unknownDateStr THEN -1
    ELSE localeCompare(a.date.chars, b.date.chars)

\* the comparator of lines 142-151
CompareDays(a, b) ==
    IF a.date = unknownDateStr THEN 1
    ELSE IF b.date = unknownDateStr THEN -1
    ELSE localeCompare(b.date.chars, a.date.chars)

\* result.sort(comparator): stable
RECURSIVE InsertDay(_, _)
InsertDay(sorted, day) ==
    IF sorted = <<>> THEN <<day>>
    ELSE IF CompareDays(sorted[Len(sorted)], day) <= 0
         THEN Append(sorted, day)
         ELSE Append(InsertDay(SubSeq(sorted, 1, Len(sorted) - 1), day), sorted[Len(sorted)])

RECURSIVE SortDays(_)
SortDays(result) ==
    IF result = <<>> THEN <<>>
    ELSE InsertDay(SortDays(SubSeq(result, 1, Len(result) - 1)), result[Len(result)])

\* aggregateByDay(allMetadata, steps, dayCount), called on the local date today
aggregateByDay(allMetadata, steps, dayCount, today) ==
    LET days == InitializeDays(<<>>, today, dayCount, 0)
        initialized == IF ~MapHas(days, unknownDateStr)
                       THEN MapSet(days, unknownDateStr, createEmptyDayStats(unknownDateStr))
                       ELSE days
        folded == FoldDatedSteps(FoldItems(initialized, allMetadata, 1), steps, 1)
        result == RemoveUnknownDate(folded)
    IN  SortDays([i \in 1..Len(result) |->
                     [result[i] EXCEPT !.cacheEfficiency = calculateCacheEfficiency(result[i])]])

(***************************************************************************)
(* DailyStatsAggregator called on its own.                                 *)
(***************************************************************************)
\* days of the trailing window
MaxDays == 3

\* the local dates of a call: after the end of a February of 29 days, on the
\* first day of a year, and on the tenth of a month
Todays == {CalendarDate(2024, 3, 1), CalendarDate(2025, 1, 1), CalendarDate(2025, 3, 10)}

\* metadata items: dated today by their timestamp; dated the day before by the
\* start of their session alone; not dated, with cache reads only; with a
\* timestamp that is no date; with an empty timestamp
DatedItems(today) ==
    { DatedItem(Instant("T", {today}), Missing, Missing, Str("custom-x", {}),
                Num(17), Num(5), Num(23)),
      DatedItem(Missing, Instant("T-1", {setDate(today, today.d - 1)}),
                Str("MODEL_PLACEHOLDER_M18", {}), Missing, Str("100", {100}), Num(50), Num(20)),
      DatedItem(Missing, Missing, Missing, Str("custom-x", {}), Missing, Missing, Num(4)),
      DatedItem(Instant("not a date", {}), Missing, Missing,
                Str("custom-x", {}), Num(7), Num(1), Missing),
      DatedItem(Instant("", {}), Missing, Missing, Missing, Num(9), Num(1), Missing) }

\* steps: a checkpoint of the day before; not dated, the usage in the step's
\* metadata, cache reads only; without usage; with a createdAt that is no
\* date; not dated, with input tokens
DatedSteps(today) ==
    { DatedStep("CORTEX_STEP_TYPE_CHECKPOINT", Instant("T-1", {setDate(today, today.d - 1)}),
                Usage(Str("MODEL_GOOGLE_GEMINI_2_5_FLASH_LITE", {}), Num(1000), Num(500), Missing),
                Missing),
      DatedStep("CORTEX_STEP_TYPE_PLANNER_RESPONSE", Missing, Missing,
                Usage(Str("custom-y", {}), Missing, Missing, Num(6))),
      DatedStep("CORTEX_STEP_TYPE_USER_INPUT", Instant("T", {today}), Missing, Missing),
      DatedStep("CORTEX_STEP_TYPE_CHECKPOINT", Instant("not a date", {}),
                Usage(Str("custom-y", {}), Str("3", {3}), Num(2), Num(1)), Missing),
      DatedStep("CORTEX_STEP_TYPE_PLANNER_RESPONSE", Missing,
                Usage(Str("custom-y", {}), Num(8), Num(2), Missing), Missing) }

\* DailyStatsAggregator.aggregateByDay(allMetadata, steps, dayCount) is called
CallAggregateByDay ==
    /\ call = NoCall
    /\ \E today \in Todays, dayCount \in 1..MaxDays :
         \E allMetadata \in Batches(DatedItems(today)), steps \in Batches(DatedSteps(today)) :
           call' = [op |-> "aggregateByDay", st |-> "called", allMetadata |-> allMetadata,
                    steps |-> steps, dayCount |-> dayCount, today |-> today]
    /\ UNCHANGED aside

\* aggregateByDay returns
AggregateByDayReturns ==
    /\ call.op = "aggregateByDay"
    /\ call.st = "called"
    /\ call' = [op |-> "aggregateByDay", st |-> "returned", allMetadata |-> call.allMetadata,
                steps |-> call.steps, dayCount |-> call.dayCount, today |-> call.today,
                result |-> aggregateByDay(call.allMetadata, call.steps, call.dayCount,
                                          call.today)]
    /\ UNCHANGED aside

NextDaily == CallAggregateByDay \/ AggregateByDayReturns

SpecDaily == Init /\ [][NextDaily]_vars

(***************************************************************************)
(* core/CacheManager.ts, called on its own                                 *)
(***************************************************************************)
\* isValid, were every id valid once an entry is stored
isValidAnyEntry(entry, cascadeId) == entry # NoEntry

\* isValid(cascadeId) of a manager whose this.cache is entry
isValid(entry, cascadeId) ==
    IF entry = NoEntry THEN FALSE ELSE entry.cascadeId = cascadeId

\* getEntry()
getEntry(entry) == entry

\* get(): this.cache?.stats || null; the stats are an object
get(entry) == IF entry = NoEntry THEN NoEntry ELSE entry.stats

\* set(cascadeId, lastModifiedTime, stats, nextMetaOffset, nextStepOffset) at
\* the time now
CacheManagerSet ==
    /\ \E cascadeId \in Sessions, lastModifiedTime \in 0..MaxTime :
         \E stats \in {a \in Aggregates : a.modelBreakdown = <<>>} :
           \E nextMetaOffset \in 0..MaxPage, nextStepOffset \in 0..MaxPage :
             \E now \in clock..MaxClock :
               /\ cache' = CacheSet(cascadeId, lastModifiedTime, stats,
                                    nextMetaOffset, nextStepOffset, now)
               /\ clock' = now
               /\ call' = [op |-> "set", cascadeId |-> cascadeId,
                           lastModifiedTime |-> lastModifiedTime, stats |-> stats,
                           nextMetaOffset |-> nextMetaOffset,
                           nextStepOffset |-> nextStepOffset]
    /\ UNCHANGED <<metaStream, stepStream, modified, lsPort, view, client, shown, log,
                   cycle, inflight, hunter>>

\* invalidate()
CacheManagerInvalidate ==
    /\ cache' = NoEntry
    /\ call' = [op |-> "invalidate"]
    /\ UNCHANGED <<metaStream, stepStream, modified, clock, lsPort, view, client, shown,
                   log, cycle, inflight, hunter>>

NextCache == CacheManagerSet \/ CacheManagerInvalidate

SpecCache == Init /\ [][NextCache]_vars

(***************************************************************************)
(* The claims.                                                             *)
(***************************************************************************)
Totals(stats) ==
    <<stats.totalCalls, stats.totalInput, stats.totalOutput, stats.totalCacheRead>>

BreakdownSet(stats) == {stats.modelBreakdown[i] : i \in 1..Len(stats.modelBreakdown)}

\* calculateStats in one pass over the records below the entry's offsets
OnePass(entry) ==
    calculateStats(SubSeq(metaStream[entry.cascadeId], 1, entry.nextMetaOffset),
                   SubSeq(stepStream[entry.cascadeId], 1, entry.nextStepOffset))

AllIdle == \A t \in Triggers : cycle[t].pc = "idle"

\* C1 as stated: over refresh cycles that do not overlap, against streams that
\* only grow, the cached totals and the cached modelBreakdown are those of one
\* pass of calculateStats over the records below the stored offsets.
C1_OnePassEqual ==
    cache.t = "entry" =>
        /\ Totals(cache.stats) = Totals(OnePass(cache))
        /\ cache.stats.modelBreakdown = OnePass(cache).modelBreakdown

\* C1 as amended: the cached totals are those of one pass over the records below
\* the stored offsets, and the cached modelBreakdown holds the same entries as
\* that of the one pass, one per display name; the order of the entries of
\* models outside the catalog may differ.
C1_OnePassSameEntries ==
    cache.t = "entry" =>
        /\ Totals(cache.stats) = Totals(OnePass(cache))
        /\ BreakdownSet(cache.stats) = BreakdownSet(OnePass(cache))
        /\ Len(cache.stats.modelBreakdown) = Len(OnePass(cache).modelBreakdown)

\* a merged entry whose breakdown is in another order than the one pass's
C1_Witness ==
    /\ cache.t = "entry"
    /\ cache.nextMetaOffset > 0
    /\ cache.nextStepOffset > 0
    /\ cache.stats.modelBreakdown # OnePass(cache).modelBreakdown

\* the invocation of trigger t resumes with the empty steps page that ends its
\* fetch
FetchReturns(t) ==
    /\ cycle[t].pc = "steps"
    /\ inflight[t].st = "ok"
    /\ Len(inflight[t].batch) = 0
    /\ cycle'[t] # cycle[t]

\* the part of C2 that the unserialized cycles keep: every invocation merges
\* what it fetched onto the entry it read, so the totals of what it stores are
\* those of one pass over the records below the offsets it stores
TotalsOnePassWhenIdle ==
    (AllIdle /\ cache.t = "entry") => Totals(cache.stats) = Totals(OnePass(cache))

\* C2 as stated: the check-fetch-merge-store steps of overlapping refresh cycles
\* of one session are serialized: the entry an invocation stores over is the
\* entry it read when it checked the cache.
C2_Serialized ==
    [][ \A t \in Triggers :
            (FetchReturns(t) /\ cycle[t].cachedEntry.t = "entry")
                => cache = cycle[t].cachedEntry ]_vars

\* C3 as stated: from one stored entry to the next of the same session, under
\* any interleaving of refresh cycles, neither offset decreases.
C3_OffsetsNeverDecrease ==
    [][ (cache.t = "entry" /\ cache'.t = "entry" /\ cache'.cascadeId = cache.cascadeId)
            => /\ cache'.nextMetaOffset >= cache.nextMetaOffset
               /\ cache'.nextStepOffset >= cache.nextStepOffset ]_vars

\* the invocation of trigger t resumes with the list of sessions, which names a
\* latest session
ListStep(t) ==
    /\ cycle[t].pc = "list"
    /\ inflight[t].st = "ok"
    /\ cycle'[t] # cycle[t]
    /\ getLatestConversation(inflight[t].summaries) # NoSession

LatestOf(t) == getLatestConversation(inflight[t].summaries)

\* the cache holds an entry of the session
EntryOf(cascadeId) == cache.t = "entry" /\ cache.cascadeId = cascadeId

\* C4: a refresh that is not forced and finds the entry of the latest session
\* with the latest session's lastModifiedTime posts no page request, renders the
\* stored stats and leaves the entry as it is.
C4_CacheHit ==
    [][ \A t \in Triggers :
            ( /\ ListStep(t)
              /\ ~cycle[t].force
              /\ EntryOf(LatestOf(t).cascadeId)
              /\ cache.lastModifiedTime = LatestOf(t).lastModifiedTime )
            => /\ cache' = cache
               /\ inflight'[t] = NoRequest
               /\ cycle'[t] = Idle
               /\ shown' = [kind |-> "stats", stats |-> cache.stats] ]_vars

\* a hit has been served from an entry that holds records
C4_Witness ==
    /\ log = "Cache is up to date"
    /\ cache.t = "entry"
    /\ cache.stats.totalCalls > 0
    /\ shown = [kind |-> "stats", stats |-> cache.stats]

\* C5: an entry is consumed only by an invocation that fetches the entry's
\* session; without an entry of the latest session the invocation fetches from
\* (0,0) and stores the stats of that fetch alone, with the offsets it reached.
C5_ColdFetch ==
    /\ [](\A t \in Triggers :
              cycle[t].cachedEntry.t = "entry"
                  => cycle[t].cachedEntry.cascadeId = cycle[t].latest.cascadeId)
    /\ [][ \A t \in Triggers :
              /\ (ListStep(t) /\ ~EntryOf(LatestOf(t).cascadeId))
                    => /\ inflight'[t] = MetaRequest(cycle[t].svc, LatestOf(t).cascadeId, 0)
                       /\ cycle'[t].latest = LatestOf(t)
                       /\ cycle'[t].cachedEntry = NoEntry
                       /\ cycle'[t].metaOffset = 0 /\ cycle'[t].stepOffset = 0
                       /\ cycle'[t].metadata = <<>> /\ cycle'[t].steps = <<>>
                       /\ cache' = cache
              /\ (FetchReturns(t) /\ cycle[t].cachedEntry = NoEntry)
                    => /\ cache'.cascadeId = cycle[t].latest.cascadeId
                       /\ cache'.lastModifiedTime = cycle[t].latest.lastModifiedTime
                       /\ cache'.stats = calculateStats(cycle[t].metadata, cycle[t].steps)
                       /\ cache'.nextMetaOffset = Len(cycle[t].metadata)
                       /\ cache'.nextStepOffset = Len(cycle[t].steps) ]_vars

\* a fetch from (0,0) of one session is under way while the cache holds the
\* counted records of another
C5_Witness ==
    \E t \in Triggers :
        /\ cycle[t].pc = "steps"
        /\ cycle[t].cachedEntry = NoEntry
        /\ Len(cycle[t].metadata) > 0
        /\ cache.t = "entry"
        /\ cache.cascadeId # cycle[t].latest.cascadeId
        /\ cache.stats.totalCalls > 0

\* C6: a forced refresh that finds an entry of the latest session fetches from
\* the entry's offsets, whatever the timestamps; it fetches from (0,0) only
\* when the cache holds no entry of that session.
C6_ForcedDelta ==
    [][ \A t \in Triggers :
            (ListStep(t) /\ cycle[t].force)
            => LET id == LatestOf(t).cascadeId
               IN  IF EntryOf(id)
                   THEN /\ inflight'[t] = MetaRequest(cycle[t].svc, id, cache.nextMetaOffset)
                        /\ cycle'[t].metaOffset = cache.nextMetaOffset
                        /\ cycle'[t].stepOffset = cache.nextStepOffset
                   ELSE /\ inflight'[t] = MetaRequest(cycle[t].svc, id, 0)
                        /\ cycle'[t].metaOffset = 0
                        /\ cycle'[t].stepOffset = 0 ]_vars

\* a forced refresh fetches from offsets above zero though the timestamp of the
\* entry is the latest session's
C6_Witness ==
    \E t \in Triggers :
        /\ cycle[t].force
        /\ cycle[t].pc = "steps"
        /\ cycle[t].cachedEntry.t = "entry"
        /\ cycle[t].cachedEntry.lastModifiedTime = cycle[t].latest.lastModifiedTime
        /\ cycle[t].startMetaOffset > 0
        /\ cycle[t].startMetaOffset = cycle[t].cachedEntry.nextMetaOffset

\* C7: when the delta fetch of the entry's session returns no metadata and no
\* steps, the invocation leaves the stats and both offsets of the entry as they
\* are and sets its lastModifiedTime to the latest one, so that a refresh that
\* is not forced and observes that time finds the entry up to date.
C7_EmptyDelta ==
    [][ \A t \in Triggers :
            ( /\ FetchReturns(t)
              /\ cycle[t].cachedEntry.t = "entry"
              /\ cycle[t].metadata = <<>>
              /\ cycle[t].steps = <<>> )
            => /\ cache.t = "entry"
               /\ cache' = [cache EXCEPT !.lastModifiedTime = cycle[t].latest.lastModifiedTime,
                                          !.timestamp = clock]
               /\ cache'.cascadeId = cycle[t].latest.cascadeId
               /\ shown' = [kind |-> "stats", stats |-> cache.stats] ]_vars

\* an empty delta has been stored over an entry with records, after the
\* session's lastModifiedTime had changed
C7_Witness ==
    /\ log = "No new items found despite updated timestamp."
    /\ cache.t = "entry"
    /\ cache.stats.totalCalls > 0
    /\ cache.lastModifiedTime = modified[cache.cascadeId]
    /\ cache.lastModifiedTime > 1

\* C8: what a fetch has gathered is, in order, the records of the stream from
\* its start offset up to its current offset, which is the start offset plus
\* the number of records gathered; each request asks for the current offset,
\* and a delta fetch starts at the offsets the entry read holds.
C8_FetchOffsets ==
    \A t \in Triggers :
        cycle[t].pc \in {"meta", "steps"} =>
            LET c == cycle[t]
                id == c.latest.cascadeId
            IN  /\ c.metaOffset = c.startMetaOffset + Len(c.metadata)
                /\ c.stepOffset = c.startStepOffset + Len(c.steps)
                /\ c.metaOffset <= Len(metaStream[id])
                /\ c.stepOffset <= Len(stepStream[id])
                /\ c.metadata = SubSeq(metaStream[id], c.startMetaOffset + 1, c.metaOffset)
                /\ c.steps = SubSeq(stepStream[id], c.startStepOffset + 1, c.stepOffset)
                /\ inflight[t].st = "sent" =>
                       inflight[t].offset = IF c.pc = "meta" THEN c.metaOffset ELSE c.stepOffset
                /\ c.cachedEntry.t = "entry" =>
                       /\ c.startMetaOffset = c.cachedEntry.nextMetaOffset
                       /\ c.startStepOffset = c.cachedEntry.nextStepOffset

\* a fetch resumed from offsets above zero has gathered records of both streams
C8_Witness ==
    \E t \in Triggers :
        /\ cycle[t].pc = "steps"
        /\ cycle[t].startMetaOffset + cycle[t].startStepOffset > 0
        /\ Len(cycle[t].metadata) + Len(cycle[t].steps) > 0

\* the invocation of trigger t ends on a failure: its request fails, the scan
\* finds no backend, or the list names no session
FailureStep(t) ==
    /\ cycle[t].pc # "idle"
    /\ cycle'[t] # cycle[t]
    /\ \/ inflight[t].st = "sent"
       \/ cycle[t].pc = "scan" /\ inflight[t].result = 0
       \/ cycle[t].pc = "list" /\ getLatestConversation(inflight[t].summaries) = NoSession

\* C9: an invocation that fails renders an error and ends, and the cache entry
\* is changed only by the step of an invocation whose fetch has returned; so a
\* failed invocation merges nothing of what it had fetched.
C9_ErrorLeavesCache ==
    [][ /\ \A t \in Triggers :
              FailureStep(t)
              => /\ shown'.kind = "error"
                 /\ cycle'[t] = Idle
                 /\ inflight'[t] = NoRequest
                 /\ cache' = cache
        /\ cache' # cache => \E t \in Triggers : FetchReturns(t) ]_vars

\* a page request failed after records had been fetched, and the entry still
\* ends below the stream
C9_Witness ==
    /\ AllIdle
    /\ shown = [kind |-> "error", error |-> "request failed"]
    /\ cache.t = "entry"
    /\ cache.nextMetaOffset < Len(metaStream[cache.cascadeId])

\* the client holds a port the backend no longer listens on
Stale == client # 0 /\ client # lsPort

\* C10 as stated: once the connection held is lost, a later trigger replaces
\* it; the client does not stay on the lost port for ever.
C10_Rediscovery == Stale ~> ~Stale

\* C11 as stated: a cycle whose delta fetch returns while the stream of the
\* session is shorter than an offset of the entry it read does not store that
\* entry again: what it stores has offsets that fit the stream and the totals
\* of one pass over the records below them.
C11_DiscardOnRegress ==
    [][ \A t \in Triggers :
            ( /\ FetchReturns(t)
              /\ cycle[t].cachedEntry.t = "entry"
              /\ \/ cycle[t].cachedEntry.nextMetaOffset
                        > Len(metaStream[cycle[t].latest.cascadeId])
                 \/ cycle[t].cachedEntry.nextStepOffset
                        > Len(stepStream[cycle[t].latest.cascadeId]) )
            => ( cache'.t = "entry" =>
                    /\ cache'.nextMetaOffset <= Len(metaStream[cache'.cascadeId])
                    /\ cache'.nextStepOffset <= Len(stepStream[cache'.cascadeId])
                    /\ Totals(cache'.stats) =
                           Totals(calculateStats(
                               SubSeq(metaStream[cache'.cascadeId], 1, cache'.nextMetaOffset),
                               SubSeq(stepStream[cache'.cascadeId], 1, cache'.nextStepOffset))) ) ]_vars

\* C12: when a scan returns a handle and more than one candidate of the
\* enumeration verified, the handle is that of the first candidate, in
\* enumeration order, whose latest session time is the greatest of all.
C12_LatestSelected ==
    ( /\ hunter.pc = "done"
      /\ hunter.result # NoHandle
      /\ Len(hunter.validResults) > 1 )
    => LET v == hunter.validResults
       IN  \E c \in 1..Len(v) :
               /\ hunter.result = v[c].result
               /\ \A d \in 1..Len(v) : v[d].latestTime <= v[c].latestTime
               /\ \A d \in 1..(c - 1) : v[d].latestTime < v[c].latestTime

\* two candidates verified and the second, with the later session, is returned
C12_Witness ==
    /\ hunter.pc = "done"
    /\ Len(hunter.validResults) = 2
    /\ hunter.validResults[1].latestTime < hunter.validResults[2].latestTime
    /\ hunter.validResults[1].latestTime > 0
    /\ hunter.result = hunter.validResults[2].result

\* the enumerations a scan ran, counted by kind
Ran(kind) == Cardinality({a \in 1..Len(hunter.ran) : hunter.ran[a] = kind})

PhaseRank(kind) == CASE kind = "name" -> 1 [] kind = "keyword" -> 2 [] kind = "diagnostics" -> 3

C14_NeverRaises ==
    /\ [](hunter.pc # "raised")
    /\ [](hunter.pc = "done" => hunter.result.t \in {"handle", "null"})
    /\ [][ hunter.pc \notin {"none", "done"} /\ hunter'.caught > hunter.caught =>
             CASE hunter.pc = "list" /\ hunter.phase = "name" ->
                      IF hunter.i + 1 < hunter.maxAttempts
                      THEN /\ hunter'.pc = "list" /\ hunter'.phase = "name"
                           /\ hunter'.i = hunter.i + 1
                      ELSE IF hunter.platform = "win32"
                      THEN hunter'.pc = "list" /\ hunter'.phase = "keyword"
                      ELSE hunter'.pc = "diagnostics"
               [] hunter.pc = "list" /\ hunter.phase = "keyword" ->
                      hunter'.pc = "diagnostics"
               [] hunter.pc = "ports" ->
                      IF hunter.k < hunter.n
                      THEN hunter'.pc = "ports" /\ hunter'.k = hunter.k + 1
                      ELSE hunter'.pc \in {"list", "diagnostics", "done"}
               [] hunter.pc = "diagnostics" ->
                      hunter'.pc = "done" /\ hunter'.result = NoHandle ]_vars

\* a scan returned a handle after two failures were caught and a probe had
\* ended in an error
C14_Witness ==
    /\ hunter.pc = "done"
    /\ hunter.result # NoHandle
    /\ hunter.caught >= 2
    /\ Len(hunter.ran) >= 2
    /\ Len(hunter.probes) = 2
    /\ hunter.probes[1].outcome = "error"

\* C15: verifyConnection probes the ports in list order, one probe each; only
\* its last probe may have succeeded; it returns the port of a successful probe
\* at once, and none only when every port was probed without success.
C15_FirstSuccess ==
    hunter.pc \notin {"none", "start"} /\ hunter.verify # "none" =>
        LET pr == hunter.probes
            ports == hunter.ports
        IN  /\ Len(pr) <= Len(ports)
            /\ \A a \in 1..Len(pr) : pr[a].port = ports[a]
            /\ \A a \in 1..(Len(pr) - 1) : pr[a].outcome # "200"
            /\ hunter.verify = "running" =>
                   /\ hunter.pc = "probe"
                   /\ hunter.j = Len(pr) + 1
                   /\ \A a \in 1..Len(pr) : pr[a].outcome # "200"
            /\ hunter.verify = "returned" =>
                   IF hunter.validPort # 0
                   THEN pr[Len(pr)] = [port |-> hunter.validPort, outcome |-> "200"]
                   ELSE /\ Len(pr) = Len(ports)
                        /\ \A a \in 1..Len(pr) : pr[a].outcome # "200"

\* the first port timed out and the second, which answered 200, was returned
C15_Witness ==
    /\ hunter.pc = "time"
    /\ hunter.verify = "returned"
    /\ Len(hunter.ports) = 2
    /\ hunter.probes[1].outcome = "timeout"
    /\ hunter.validPort = hunter.ports[2]

\* the context-window estimate of a metadata record, as calculateStats reads it
ContextOf(item) == Tok(Or(Or(item.estimatedTokensUsed, item.contextTokens), Num(0)))

\* C16 as stated: the cached lastContextSize is the context-window estimate of
\* the last metadata record below nextMetaOffset, also after a delta that
\* brought only step records.
C16_LastContext ==
    ( /\ cache.t = "entry"
      /\ cache.nextMetaOffset > 0
      /\ cache.nextMetaOffset <= Len(metaStream[cache.cascadeId]) )
    => cache.stats.lastContextSize =
           ContextOf(metaStream[cache.cascadeId][cache.nextMetaOffset])


\* a call of mergeStats has returned
Merged == call.op = "mergeStats" /\ call.st = "returned"

\* C17: mergeStats(base, delta) has the lastContextSize of delta when delta has
\* a call or input tokens, and that of base otherwise.
C17_ContextRule ==
    Merged =>
        call.result.lastContextSize =
            IF call.delta.totalCalls > 0 \/ call.delta.totalInput > 0
            THEN call.delta.lastContextSize
            ELSE call.base.lastContextSize

\* an empty delta kept the context size of the base, and a delta with input
\* tokens and no call would have replaced it
C17_Witness ==
    /\ Merged
    /\ call.delta.totalCalls = 0
    /\ call.delta.totalInput = 0
    /\ call.base.lastContextSize = 7
    /\ call.delta.lastContextSize = 0
    /\ call.result.lastContextSize = 7

NamesOf(breakdown) == {breakdown[i].displayName : i \in 1..Len(breakdown)}

OnePerName(breakdown) ==
    \A i, j \in 1..Len(breakdown) : i # j => breakdown[i].displayName # breakdown[j].displayName

\* the counters a breakdown holds for a display name: zero when it has no entry
CountersOf(breakdown, name) ==
    IF name \in NamesOf(breakdown)
    THEN LET m == breakdown[CHOOSE i \in 1..Len(breakdown) : breakdown[i].displayName = name]
         IN  <<m.calls, m.input, m.output, m.cacheRead>>
    ELSE <<0, 0, 0, 0>>

\* the breakdown has one entry for each name of either input, with the sums of
\* the inputs' counters
MergedBreakdown(result, base, delta) ==
    /\ OnePerName(result)
    /\ NamesOf(result) = NamesOf(base) \cup NamesOf(delta)
    /\ \A name \in NamesOf(base) \cup NamesOf(delta) :
           \A f \in 1..4 :
               CountersOf(result, name)[f] = CountersOf(base, name)[f] + CountersOf(delta, name)[f]

\* C18 as stated: for breakdowns with at most one entry per display name, the
\* merged breakdown has exactly one entry for every display name of either
\* input, and an entry's counters are the sums of the inputs' counters.
C18_OneEntryPerName ==
    (Merged /\ OnePerName(call.base.modelBreakdown) /\ OnePerName(call.delta.modelBreakdown))
        => MergedBreakdown(call.result.modelBreakdown,
                           call.base.modelBreakdown, call.delta.modelBreakdown)

\* the same for display names that Object.prototype does not hold
MergedBreakdownOfOwnNames ==
    ( /\ Merged
      /\ (NamesOf(call.base.modelBreakdown) \cup NamesOf(call.delta.modelBreakdown))
             \cap ObjectPrototypeKeys = {} )
        => MergedBreakdown(call.result.modelBreakdown,
                           call.base.modelBreakdown, call.delta.modelBreakdown)

\* C19: the four totals of mergeStats(A, B) are those of mergeStats(B, A), the
\* sums of the inputs' totals.
C19_TotalsCommute ==
    Merged =>
        /\ Totals(call.result) = Totals(mergeStats(call.delta, call.base))
        /\ Totals(call.result) =
               <<call.base.totalCalls + call.delta.totalCalls,
                 call.base.totalInput + call.delta.totalInput,
                 call.base.totalOutput + call.delta.totalOutput,
                 call.base.totalCacheRead + call.delta.totalCacheRead>>

\* two aggregates with calls were merged, and the other order has another
\* lastContextSize
C19_Witness ==
    /\ Merged
    /\ call.base.totalCalls > 0
    /\ call.delta.totalCalls > 0
    /\ call.base.totalInput # call.delta.totalInput
    /\ call.result.lastContextSize
           # mergeStats(call.delta, call.base).lastContextSize


\* a call of calculateStats has returned
Calculated == call.op = "calculateStats" /\ call.st = "returned"

\* the number a token field stands for: zero when it is missing or holds no
\* number
Resolved(field) ==
    IF field.t = "number" THEN field.n
    ELSE IF field.t = "string" /\ field.parsed # {} THEN CHOOSE n \in field.parsed : TRUE
    ELSE 0

\* the step carries a usage object, and which
Bearing(step) == step.modelUsage.t = "object" \/ step.metadataModelUsage.t = "object"

UsageOf(step) ==
    IF step.modelUsage.t = "object" THEN step.modelUsage ELSE step.metadataModelUsage

RECURSIVE SumOver(_, _)
SumOver(indices, value) ==
    IF indices = {} THEN 0
    ELSE LET i == CHOOSE j \in indices : TRUE
         IN  value[i] + SumOver(indices \ {i}, value)

\* the sums of the three token fields over the records of M and the
\* usage-bearing steps of S, after the number of records counted
SumsOf(M, S) ==
    LET bearing == {i \in 1..Len(S) : Bearing(S[i])}
    IN  << Len(M) + Cardinality(bearing),
           SumOver(1..Len(M), [i \in 1..Len(M) |-> Resolved(M[i].inputTokens)])
             + SumOver(bearing, [i \in 1..Len(S) |->
                                    IF Bearing(S[i]) THEN Resolved(UsageOf(S[i]).inputTokens) ELSE 0]),
           SumOver(1..Len(M), [i \in 1..Len(M) |-> Resolved(M[i].outputTokens)])
             + SumOver(bearing, [i \in 1..Len(S) |->
                                    IF Bearing(S[i]) THEN Resolved(UsageOf(S[i]).outputTokens) ELSE 0]),
           SumOver(1..Len(M), [i \in 1..Len(M) |-> Resolved(M[i].cacheReadTokens)])
             + SumOver(bearing, [i \in 1..Len(S) |->
                                    IF Bearing(S[i]) THEN Resolved(UsageOf(S[i]).cacheReadTokens) ELSE 0]) >>

\* the reorderings of a batch
Reorderings(batch) ==
    LET n == Len(batch)
    IN  { [i \in 1..n |-> batch[p[i]]] :
          p \in {q \in [1..n -> 1..n] : \A i, j \in 1..n : i # j => q[i] # q[j]} }

\* C20: the totals of calculateStats(M, S) are the number of records of M plus
\* the usage-bearing steps of S and the sums of their input, output and
\* cache-read token fields, a missing or non-numeric field counting as zero;
\* every reordering of M and of S has the same totals.
C20_TotalsAreSums ==
    Calculated =>
        /\ Totals(call.result) = SumsOf(call.metadata, call.steps)
        /\ \A M \in Reorderings(call.metadata), S \in Reorderings(call.steps) :
               Totals(calculateStats(M, S)) = Totals(call.result)

\* two different metadata records, one with a non-numeric and one with missing
\* token fields, and two steps, one without usage and one whose usage is in its
\* metadata, were counted as three calls
C20_Witness ==
    /\ Calculated
    /\ Len(call.metadata) = 2
    /\ call.metadata[1].cacheReadTokens = Str("n/a", {})
    /\ call.metadata[2].outputTokens = Missing
    /\ call.metadata[2].inputTokens = Num(10)
    /\ Len(call.steps) = 2
    /\ ~Bearing(call.steps[1])
    /\ call.steps[2].modelUsage = Missing /\ Bearing(call.steps[2])
    /\ Totals(call.result) = <<3, 16, 10, 3>>


\* a call of aggregateByDay has returned
Aggregated == call.op = "aggregateByDay" /\ call.st = "returned"

\* the days from the end of 1999 to a date of this century
DayNumber(date) ==
    LET y == date.y - 1
        leapYears == (y \div 4 - 499) - (y \div 100 - 19) + (y \div 400 - 4)
        before == <<0, 31, 59, 90, 120, 151, 181, 212, 243, 273, 304, 334>>[date.m]
        leapDay == IF date.m > 2 /\ date.y % 4 = 0 /\ (date.y % 100 # 0 \/ date.y % 400 = 0)
                   THEN 1 ELSE 0
    IN  365 * (date.y - 2000) + leapYears + before + leapDay + date.d

\* the bucket a timestamp names in the window of the call: 0 for 'Unknown Date'
\* when there is no timestamp, the day number of its date when the window has
\* that day, and -1 when the window has no bucket for it
BucketOf(timestamp) ==
    IF ~Truthy(timestamp) THEN 0
    ELSE IF timestamp.date = {} THEN -1
    ELSE LET n == DayNumber(CHOOSE date \in timestamp.date : TRUE)
         IN  IF DayNumber(call.today) - n \in 0..(call.dayCount - 1) THEN n ELSE -1

\* the calls and the input, output and cache-read tokens of all buckets of a result
GrandTotals(result) ==
    LET days == 1..Len(result)
    IN  << SumOver(days, [i \in days |->
                      SumOver(1..Len(result[i].models),
                              [k \in 1..Len(result[i].models) |-> result[i].models[k].calls])]),
           SumOver(days, [i \in days |-> result[i].totals.inputTokens]),
           SumOver(days, [i \in days |-> result[i].totals.outputTokens]),
           SumOver(days, [i \in days |-> result[i].totals.cacheReadTokens]) >>

\* the same of the steps of S at the indices given
StepTotals(S, indices) ==
    << Cardinality(indices),
       SumOver(indices, [i \in 1..Len(S) |->
                   IF Bearing(S[i]) THEN Resolved(UsageOf(S[i]).inputTokens) ELSE 0]),
       SumOver(indices, [i \in 1..Len(S) |->
                   IF Bearing(S[i]) THEN Resolved(UsageOf(S[i]).outputTokens) ELSE 0]),
       SumOver(indices, [i \in 1..Len(S) |->
                   IF Bearing(S[i]) THEN Resolved(UsageOf(S[i]).cacheReadTokens) ELSE 0]) >>

\* C21 as stated, for aggregateByDay called with steps alone: every step that
\* carries a usage object, and whose createdAt is missing or names a day of the
\* window, adds one call and its token fields to the buckets, whatever its type
\* tag, and no other step adds anything.
C21_UsageStepsCounted ==
    (Aggregated /\ call.allMetadata = <<>>)
        => GrandTotals(call.result) =
               StepTotals(call.steps,
                          {i \in 1..Len(call.steps) :
                               Bearing(call.steps[i]) /\ BucketOf(call.steps[i].createdAt) >= 0})

\* the calls and the tokens of the metadata items of M at the indices given
ItemTotals(M, indices) ==
    << Cardinality(indices),
       SumOver(indices, [i \in 1..Len(M) |-> Resolved(M[i].inputTokens)]),
       SumOver(indices, [i \in 1..Len(M) |-> Resolved(M[i].outputTokens)]),
       SumOver(indices, [i \in 1..Len(M) |-> Resolved(M[i].cacheReadTokens)]) >>

\* neither the timestamp of the item nor its createdAt resolves to a date
Undated(item) ==
    \A timestamp \in {item.timestamp, item.createdAt} :
        ~Truthy(timestamp) \/ timestamp.date = {}

\* the indices of the 'Unknown Date' bucket in a result
UnknownDays(result) == {k \in 1..Len(result) : result[k].date = unknownDateStr}

\* the tokens of a bucket
TokensOf(day) ==
    <<day.totals.inputTokens, day.totals.outputTokens, day.totals.cacheReadTokens>>

\* C22: the metadata items for which neither the timestamp nor createdAt
\* resolves to a date are counted in 'Unknown Date' and never dropped; stated
\* for a call without steps whose undated items carry input or output tokens.
C22_UndatedItemsKept ==
    (Aggregated /\ call.steps = <<>>)
        => LET undated == {i \in 1..Len(call.allMetadata) : Undated(call.allMetadata[i])}
               sums == ItemTotals(call.allMetadata, undated)
           IN  sums[2] + sums[3] > 0
                   => \E k \in UnknownDays(call.result) :
                         /\ TokensOf(call.result[k]) = <<sums[2], sums[3], sums[4]>>
                         /\ GrandTotals(<<call.result[k]>>)[1] = sums[1]

\* the steps of the call that carry usage and whose createdAt names the bucket
StepsOf(bucket) ==
    {i \in 1..Len(call.steps) :
        Bearing(call.steps[i]) /\ BucketOf(call.steps[i].createdAt) = bucket}

\* the metadata items of the call whose timestamp, else createdAt, names the bucket
ItemsOf(bucket) ==
    {i \in 1..Len(call.allMetadata) :
        BucketOf(Or(call.allMetadata[i].timestamp, call.allMetadata[i].createdAt)) = bucket}

\* C23 as stated: a step that carries usage and has no resolvable date (no
\* createdAt, or an unparsable one) is counted in no bucket, not even in
\* 'Unknown Date': the result is the one of the call without these steps.
C23_UndatedStepsSkipped ==
    Aggregated
        => LET Dated(step) == ~(Bearing(step) /\ (~Truthy(step.createdAt)
                                                   \/ step.createdAt.date = {}))
           IN  call.result = aggregateByDay(call.allMetadata, SelectSeq(call.steps, Dated),
                                            call.dayCount, call.today)

\* C23 amended: the day of a step comes from its createdAt alone. A step that
\* carries usage and whose createdAt is unparsable or names a day the window
\* lacks is counted in no bucket: the result is the one of the call without
\* these steps. A step that carries usage and has no createdAt is folded into
\* 'Unknown Date': the tokens of that bucket are those of the undated items and
\* of these steps, and the result has the bucket when these steps carry input
\* or output tokens.
C23_StepsByCreatedAt ==
    Aggregated
        => LET Placed(step) == ~(Bearing(step) /\ BucketOf(step.createdAt) = -1)
               items == ItemTotals(call.allMetadata, ItemsOf(0))
               steps == StepTotals(call.steps, StepsOf(0))
           IN  /\ call.result = aggregateByDay(call.allMetadata,
                                               SelectSeq(call.steps, Placed),
                                               call.dayCount, call.today)
               /\ \A k \in UnknownDays(call.result) :
                     TokensOf(call.result[k]) =
                         <<items[2] + steps[2], items[3] + steps[3], items[4] + steps[4]>>
               /\ steps[2] + steps[3] > 0 => UnknownDays(call.result) # {}

\* a step without createdAt is in 'Unknown Date' beside a step that is skipped
C23_Witness ==
    /\ Aggregated
    /\ call.allMetadata = <<>>
    /\ StepsOf(0) # {}
    /\ StepsOf(-1) # {}
    /\ \E k \in UnknownDays(call.result) : call.result[k].totals.inputTokens > 0

\* C24: the result has the 'Unknown Date' bucket exactly when a metadata item
\* or a step was folded into it, whatever the tokens of that record.
C24_UnknownDateKept ==
    Aggregated => (UnknownDays(call.result) # {} <=> (ItemsOf(0) # {} \/ StepsOf(0) # {}))

\* the string has the form YYYY-MM-DD, and the date it names
IsDateString(str) ==
    /\ str.t = "date"
    /\ Len(str.chars) = 10
    /\ \A p \in 1..10 : IF p \in {5, 8} THEN str.chars[p] = -1 ELSE str.chars[p] \in 0..9

DateNamed(str) ==
    [y |-> 1000 * str.chars[1] + 100 * str.chars[2] + 10 * str.chars[3] + str.chars[4],
     m |-> 10 * str.chars[6] + str.chars[7],
     d |-> 10 * str.chars[9] + str.chars[10]]

\* C25: the result has one bucket for each of the dayCount days that end today,
\* the most recent first, then at most one 'Unknown Date' bucket, and no two
\* buckets share a date.
C25_OneBucketPerDay ==
    Aggregated
        => LET result == call.result
           IN  /\ Len(result) \in {call.dayCount, call.dayCount + 1}
               /\ \A i \in 1..call.dayCount :
                     /\ IsDateString(result[i].date)
                     /\ DateNamed(result[i].date).m \in 1..12
                     /\ DateNamed(result[i].date).d \in 1..31
                     /\ DayNumber(DateNamed(result[i].date)) = DayNumber(call.today) - (i - 1)
               /\ Len(result) > call.dayCount => result[Len(result)].date = unknownDateStr
               /\ \A i, j \in 1..Len(result) : i # j => result[i].date # result[j].date

\* three days across the end of a leap February, and 'Unknown Date' after them
C25_Witness ==
    /\ Aggregated
    /\ call.dayCount = 3
    /\ call.today = [y |-> 2024, m |-> 3, d |-> 1]
    /\ Len(call.result) = 4
    /\ call.result[4].date = unknownDateStr

\* C26: the cacheEfficiency of every bucket is 100 * cacheRead / (input +
\* cacheRead) of its totals rounded to the nearest integer, a half rounded up,
\* and 0 when the denominator is 0; it lies in 0..100.
C26_CacheEfficiencyRounded ==
    Aggregated
        => \A k \in 1..Len(call.result) :
              LET cacheRead == call.result[k].totals.cacheReadTokens
                  total == call.result[k].totals.inputTokens + cacheRead
              IN  /\ call.result[k].cacheEfficiency \in 0..100
                  /\ call.result[k].cacheEfficiency =
                         IF total = 0 THEN 0 ELSE (200 * cacheRead + total) \div (2 * total)

\* C27: the manager holds nothing until set is called and after invalidate:
\* get() is null and no id is valid. After set(id, t, stats, m, s) it holds the
\* entry of that call alone: get() is stats, getEntry() carries id, t, m and s,
\* and an id is valid exactly when it is id.
C27_AtMostOneEntry ==
    /\ call.op \in {"none", "invalidate"}
           => /\ get(cache) = NoEntry
              /\ getEntry(cache) = NoEntry
              /\ \A x \in Sessions : ~isValid(cache, x)
    /\ call.op = "set"
           => /\ get(cache) = call.stats
              /\ getEntry(cache) # NoEntry
              /\ getEntry(cache).cascadeId = call.cascadeId
              /\ getEntry(cache).lastModifiedTime = call.lastModifiedTime
              /\ getEntry(cache).nextMetaOffset = call.nextMetaOffset
              /\ getEntry(cache).nextStepOffset = call.nextStepOffset
              /\ \A x \in Sessions : isValid(cache, x) <=> x = call.cascadeId

\* a later set has replaced the entry of an earlier one: the entry is younger
\* than the start and another id is not valid
C27_Witness ==
    /\ call.op = "set"
    /\ cache.timestamp > 0
    /\ \E x \in Sessions : ~isValid(cache, x)
    /\ call.stats.totalCalls > 0

\* C28: every attempt of scanByProcessName that another attempt follows was
\* followed by the retry delay, whatever made it fail.
C28_DelayBetweenAttempts ==
    hunter.pc # "none" => \A a \in 0..(Ran("name") - 2) : a \in hunter.delays

\* the sums of the four counters over the entries of a breakdown
BreakdownSums(breakdown) ==
    LET entries == 1..Len(breakdown)
    IN  << SumOver(entries, [i \in entries |-> breakdown[i].calls]),
           SumOver(entries, [i \in entries |-> breakdown[i].input]),
           SumOver(entries, [i \in entries |-> breakdown[i].output]),
           SumOver(entries, [i \in entries |-> breakdown[i].cacheRead]) >>

\* C30: the totals of every result of calculateStats are the sums of its
\* modelBreakdown: calls, input, output and cacheRead.
C30_TotalsAreBreakdownSums ==
    Calculated => Totals(call.result) = BreakdownSums(call.result.modelBreakdown)

\* the cache holds the latest session with its lastModifiedTime and with offsets
\* at the ends of its two streams
Converged ==
    /\ cache.t = "entry"
    /\ getLatestConversation(modified) # NoSession
    /\ cache.cascadeId = getLatestConversation(modified).cascadeId
    /\ cache.lastModifiedTime = modified[cache.cascadeId]
    /\ cache.nextMetaOffset = Len(metaStream[cache.cascadeId])
    /\ cache.nextStepOffset = Len(stepStream[cache.cascadeId])

\* C29: against a backend that sets lastModifiedTime with every append, and
\* with cycles that do not overlap: a cycle that ends with a stored entry or a
\* cache hit, and whose list of sessions the backend has not changed since,
\* leaves the cache converged, so of the cycles that succeed after the last
\* change at most the one in flight at the change does not; a cycle without
\* force that lists the sessions of a converged cache is a cache hit; and the
\* cache stays converged for as long as the backend does not change.
C29_Convergence ==
    /\ [][ \A t \in Triggers :
             ( \/ /\ ResumeSteps(t)
                  /\ cycle'[t] = Idle
                  /\ cycle[t].latest = getLatestConversation(modified)
               \/ /\ ResumeList(t)
                  /\ log' = "Cache is up to date"
                  /\ getLatestConversation(inflight[t].summaries) =
                         getLatestConversation(modified) )
             => Converged' ]_vars
    /\ [][ \A t \in Triggers :
             ( /\ ResumeList(t)
               /\ Converged
               /\ ~cycle[t].force
               /\ getLatestConversation(inflight[t].summaries) =
                      getLatestConversation(modified) )
             => (log' = "Cache is up to date" /\ cache' = cache) ]_vars
    /\ [][ (Converged /\ UNCHANGED <<metaStream, stepStream, modified>>) => Converged' ]_vars

\* the cache is converged on a session with records in both streams, and the
\* last cycle was a cache hit
C29_Witness ==
    /\ Converged
    /\ \A t \in Triggers : cycle[t].pc = "idle"
    /\ log = "Cache is up to date"
    /\ cache.nextMetaOffset > 0
    /\ cache.nextStepOffset > 0

====
